---------------------------- MODULE Spec2Model ----------------------------
(***************************************************************************)
(* Verification model of the Solana flash-loan arbitrage bot (src/pybot).  *)
(*                                                                         *)
(* The module holds one state machine per component:                       *)
(*   SpecRegistry  PoolRegistry.register_pool / get_pair_pools             *)
(*   SpecTri       TriangularScanner.build_graph / scan_triangles          *)
(*   SpecXdex      CrossDexScanner.scan_pair                               *)
(*   SpecBuilder   the three transaction builders of tx_builder.py         *)
(*   Spec          ArbitrageEngine: scan loop, reactive worker, executions *)
(*   SpecFees      FeeStrategy.compute_fees                                *)
(*   SpecAlt       ALTManager: initialize, extend, ensure_accounts         *)
(*   SpecStreamer  PoolStreamer and the WebSocket server it talks to       *)
(*   SpecWsClock   _ws_arb_loop against a clock: the 2 s and 10 s gaps     *)
(* Every specification keeps the variables of the other components at      *)
(* their construction values.                                              *)
(*                                                                         *)
(* Python floats are modelled as fixed-point numbers in micro units        *)
(* (FP = 10^6) with truncating multiplication and division.                *)
(***************************************************************************)
EXTENDS Integers, Sequences, FiniteSets, TLC

VARIABLES
    \* ---- PoolRegistry (pool_registry.py) ----
    reg_pairs,      \* PoolRegistry._pairs : pair key -> PairPools
    reg_pools,      \* PoolRegistry._pools : pool address -> PoolInfo
    reg_calls,      \* number of register_pool calls made so far, per address
    \* ---- TriangularScanner (triangular_scanner.py) ----
    tri_cfg,        \* [flash_fee_bps, min_profit_bps] given to __init__
    tri_states,     \* the pool states the last build_graph fetched
    graph,          \* TriangularScanner._graph : from_mint -> list of PriceEdge
    best_triangles, \* TriangularScanner.best_triangles : <<x, y>> -> best net bps
    tri_focus,      \* focus_mints of the last scan_triangles call ({} for None)
    tri_opps,       \* the list the last scan_triangles call returned
    \* ---- CrossDexScanner (cross_dex_scanner.py) ----
    xdex_cfg,       \* [pool_fee_bps, min_spread_bps] given to __init__
    best_spreads,   \* CrossDexScanner.best_spreads : pair -> best spread bps
    xdex_call,      \* <<>> or <<[pair, default_borrow, states]>> : the last scan_pair call
    xdex_raised,    \* TRUE when the last scan_pair call raised
    xdex_result,    \* <<>> for None, or <<opportunity>> : what the last call returned
    \* ---- tx_builder.py ----
    bld_call,       \* <<>> or <<[kind, opportunity, env, jito_tip_ix]>> : the last build call
    bld_result,     \* <<>> or <<what the last build call raised or returned>>
    \* ---- ArbitrageEngine (main.py) ----
    config,         \* ArbitrageEngine.config : BotConfig
    scanner,        \* ArbitrageEngine.scanner : PairScanner (pool_fee_bps is set in start())
    running,        \* ArbitrageEngine.running
    consecutive_failures,   \* ArbitrageEngine.consecutive_failures
    metrics,        \* ArbitrageEngine.metrics : Metrics
    agg_best,       \* PairScanner.best_spreads : pair -> best profit bps
    tri_batch_idx,  \* ArbitrageEngine._tri_batch_idx
    cycle_log,      \* how each finished scan cycle ended: "ok" or "exc"
    kill_switch,    \* TRUE once the scan loop logged KILL SWITCH and stopped the engine
    scan_pc,        \* where _scan_loop is: loop, pair, agg, tri, tri_loop, exec, done
    cycle_count,    \* cycle_count of _scan_loop
    pairs_to_scan,  \* pairs_to_scan of the current cycle
    scan_i,         \* position of the current pair in pairs_to_scan
    tri_todo,       \* the triangular opportunities of this cycle not yet handled
    ws_pc,          \* where _ws_arb_loop is: off, get, validate, exec, done
    ws_opp,         \* <<>> or <<the opportunity the worker is validating>>
    recent_scans,   \* keys of recent_scans of _ws_arb_loop
    recent_executions,      \* keys of recent_executions of _ws_arb_loop
    pool_prices,    \* ArbitrageEngine._pool_prices : pool address -> price
    ws_arb_queue,   \* ArbitrageEngine._ws_arb_queue
    exec_of,        \* task -> 0 or the index in execs of the execution it is running
    execs,          \* every execution started so far, in order
    \* ---- FeeStrategy (fee_strategy.py) ----
    fee_call,       \* <<>> or <<[fs, gross_profit_usdc, flash_loan_fee]>> : the last compute_fees call
    fee_result,     \* <<>> or <<FeeParams>> : what the last compute_fees call returned
    \* ---- ALTManager (alt_manager.py) ----
    table_address,  \* ALTManager.table_address : 0 for None, else the table's number
    table_account,  \* ALTManager.table_account : <<>> for None, else <<addresses>>
    known_addresses,        \* ALTManager.known_addresses
    alt_state_file, \* the address in .alt_state.json : 0 when the file is absent
    alt_chain,      \* the lookup tables on chain : number -> [exists, addresses]
    alt_call,       \* <<>> or <<the last call: op, accounts, known before, raised, txs, ...>>
    \* ---- PoolStreamer (pool_streamer.py) ----
    str_pc,         \* where start() is: "idle", "connect", "reading", "backoff", "returned"
    str_running,    \* PoolStreamer._running
    str_request_id, \* PoolStreamer._request_id
    str_subscriptions,      \* PoolStreamer._subscriptions : sub_id -> pool address
    str_pool_to_info,       \* PoolStreamer._pool_to_info : the addresses, in dict order
    str_conn,       \* the number of connections opened so far; the current one when reading
    str_sent,       \* the accountSubscribe requests sent on the current connection
    str_pending,    \* those of them the server has not answered yet
    str_server,     \* the server's subscriptions on the current connection : sub_id -> address
    str_inbox,      \* messages on their way to the streamer, in order
    str_log,        \* the notifications handled so far, and what became of each
    \* ---- _ws_arb_loop against a clock (main.py) ----
    wst_dry_run,    \* config.dry_run
    wst_clock,      \* time.time(), in seconds
    wst_pc,         \* where the worker is: "off", "get", "scan", "validate", "execute"
    wst_pair,       \* pair_name of the update being processed
    wst_now,        \* now, taken when the update was dequeued
    wst_recent_scans,       \* recent_scans : pair -> time
    wst_recent_executions,  \* recent_executions : pair -> time
    wst_log,        \* what the worker did: scans, discards and executions, with their times
    \* ---- QuoteProvider (quote_provider.py) ----
    qp_use_raydium, \* QuoteProvider.use_raydium
    qp_clock,       \* time.monotonic(), in seconds
    qp_cooldown_until,      \* QuoteProvider._raydium_cooldown_until
    qp_pc,          \* where get_quote is: "idle", "raydium", "jupiter"
    qp_throttled_at,        \* when the primary last answered with a throttle, -1 for never
    qp_calls,       \* the get_quote calls so far: the provider asked first, and the answers
    \* ---- ArbitrageEngine.start() and the resources it holds (main.py) ----
    life_cfg,       \* config.use_jito and config.ws_url
    life_pc,        \* where start() is
    life_open,      \* the resources that are open
    life_exit,      \* "" while start() runs, else the step at which it returned or raised
    \* ---- ArbitrageEngine._confirm_transaction (main.py) ----
    cf_pc,          \* where the call is: "idle", "loop", "status", "height", "sleep", "done"
    cf_polls,       \* the get_signature_statuses requests made so far
    cf_status,      \* what the last status poll reported
    cf_height,      \* what the last block-height request reported
    cf_result       \* "" while the call runs, else "true", "false" or "raise"

regVars == <<reg_pairs, reg_pools, reg_calls>>
triVars == <<tri_cfg, tri_states, graph, best_triangles, tri_focus, tri_opps>>

xdexVars == <<xdex_cfg, best_spreads, xdex_call, xdex_raised, xdex_result>>

bldVars == <<bld_call, bld_result>>

coreVars ==
    <<config, scanner, running, consecutive_failures, metrics, agg_best, tri_batch_idx, cycle_log,
      kill_switch>>
scanVars == <<scan_pc, cycle_count, pairs_to_scan, scan_i, tri_todo>>
wsVars == <<ws_pc, ws_opp, recent_scans, recent_executions, pool_prices, ws_arb_queue>>
execVars == <<exec_of, execs>>
engVars == <<coreVars, scanVars, wsVars, execVars>>

feeVars == <<fee_call, fee_result>>

\* the components that take no part in the engine's steps
altVars == <<table_address, table_account, known_addresses, alt_state_file, alt_chain, alt_call>>
strVars == <<str_pc, str_running, str_request_id, str_subscriptions, str_pool_to_info, str_conn, str_sent, str_pending, str_server, str_inbox, str_log>>
wstVars == <<wst_dry_run, wst_clock, wst_pc, wst_pair, wst_now, wst_recent_scans, wst_recent_executions, wst_log>>
qpVars == <<qp_use_raydium, qp_clock, qp_cooldown_until, qp_pc, qp_throttled_at, qp_calls>>
lifeVars == <<life_cfg, life_pc, life_open, life_exit>>
cfVars == <<cf_pc, cf_polls, cf_status, cf_height, cf_result>>
auxVars == <<feeVars, altVars, strVars, wstVars, qpVars, lifeVars, cfVars>>

vars == <<regVars, triVars, xdexVars, bldVars, engVars, auxVars>>

\* what a step of one component leaves alone
regOthers == <<triVars, xdexVars, bldVars, engVars, auxVars>>
triOthers == <<regVars, xdexVars, bldVars, engVars, auxVars>>
xdexOthers == <<regVars, triVars, bldVars, engVars, auxVars>>
bldOthers == <<regVars, triVars, xdexVars, engVars, auxVars>>
engOthers == <<regVars, bldVars, auxVars>>
coreOthers == <<regVars, triVars, xdexVars, bldVars, engVars>>
feeOthers == <<coreOthers, altVars, strVars, wstVars, qpVars, lifeVars, cfVars>>
altOthers == <<coreOthers, feeVars, strVars, wstVars, qpVars, lifeVars, cfVars>>
strOthers == <<coreOthers, feeVars, altVars, wstVars, qpVars, lifeVars, cfVars>>
wstOthers == <<coreOthers, feeVars, altVars, strVars, qpVars, lifeVars, cfVars>>
qpOthers == <<coreOthers, feeVars, altVars, strVars, wstVars, lifeVars, cfVars>>
lifeOthers == <<coreOthers, feeVars, altVars, strVars, wstVars, qpVars, cfVars>>
cfOthers == <<coreOthers, feeVars, altVars, strVars, wstVars, qpVars, lifeVars>>

(***************************************************************************)
(* Generic helpers                                                         *)
(***************************************************************************)
Min2(a, b) == IF a <= b THEN a ELSE b
Max2(a, b) == IF a >= b THEN a ELSE b

Range(s) == {s[i] : i \in DOMAIN s}

RECURSIVE SumSeq(_)
SumSeq(s) == IF s = <<>> THEN 0 ELSE Head(s) + SumSeq(Tail(s))

RECURSIVE Flatten(_)
Flatten(ss) == IF ss = <<>> THEN <<>> ELSE Head(ss) \o Flatten(Tail(ss))

\* the dict lookup d.get(k, default)
DictGet(d, k, default) == IF k \in DOMAIN d THEN d[k] ELSE default

\* dict assignment d[k] = v
DictSet(d, k, v) == [x \in (DOMAIN d) \cup {k} |-> IF x = k THEN v ELSE d[x]]

(***************************************************************************)
(* Fixed-point arithmetic standing for Python floats: a value v is the     *)
(* integer v * FP.  Products and quotients are truncated to a micro unit.  *)
(***************************************************************************)
FPK == 10 * 100
FP == FPK * FPK

RECURSIVE Pow10(_)
Pow10(n) == IF n = 0 THEN 1 ELSE 10 * Pow10(n - 1)

\* int(x) of Python: truncation towards zero of a / b (b > 0)
TruncDiv(a, b) == IF a >= 0 THEN a \div b ELSE -((-a) \div b)

\* a * b for fixed-point a, b >= 0: floor(a * b / FP), computed in pieces
\* that stay inside 32 bits
FixMul(a, b) ==
    LET ah == a \div FPK
        al == a % FPK
        bh == b \div FPK
        bl == b % FPK
    IN  ah * bh + ((ah * bl + al * bh + ((al * bl) \div FPK)) \div FPK)

\* floor(a * 10^n / b) for a >= 0, b > 0, by long division
RECURSIVE DivPow10(_, _, _)
DivPow10(a, b, n) ==
    IF n = 0 THEN a \div b
    ELSE (a \div b) * Pow10(n) + DivPow10((a % b) * 10, b, n - 1)

\* 1.0 / p for a fixed-point p > 0
FixInv(p) == DivPow10(FP, p, 6)

(***************************************************************************)
(* Mints.  A mint address is a base58 string; the model uses small         *)
(* naturals whose order is the strings' lexicographic order.               *)
(***************************************************************************)
USDC == 1
Mints == {1, 2, 3}

Dexes == {"raydium_clmm", "raydium_v4", "orca", "meteora"}

(***************************************************************************)
(* Pool states (pool_decoder.PoolState) as the decoders produce them.      *)
(* sqrt_price_x64 is kept in a Q-format whose unit is FPK instead of 2^64, *)
(* so that (sqrt_price_x64 / unit)^2 in micro units is its square.         *)
(***************************************************************************)
PoolState(pool_address, dex, token_mint_a, token_mint_b, price, liquidity, sqrt_price_x64, fee_rate) ==
    [pool_address |-> pool_address, dex |-> dex,
     token_mint_a |-> token_mint_a, token_mint_b |-> token_mint_b,
     price |-> price, liquidity |-> liquidity,
     sqrt_price_x64 |-> sqrt_price_x64, fee_rate |-> fee_rate]

\* (sqrt_price / (1 << 64)) ** 2
raw_sqrt_price(sqrt_price_x64) == sqrt_price_x64 * sqrt_price_x64

\* decode_orca_whirlpool: price is the raw price, not decimal adjusted
OrcaState(addr, ma, mb, sqrt_price, liquidity, fee_rate) ==
    PoolState(addr, "orca", ma, mb, raw_sqrt_price(sqrt_price), liquidity, sqrt_price, fee_rate)

\* decode_raydium_clmm: price is decimal adjusted from the account's decimals
ClmmState(addr, ma, mb, price, liquidity) ==
    PoolState(addr, "raydium_clmm", ma, mb, price, liquidity, 0, 0)

\* decode_raydium_v4: price 0.0, liquidity 0
V4State(addr, ma, mb) == PoolState(addr, "raydium_v4", ma, mb, 0, 0, 0, 0)

\* decode_meteora_dlmm: raw bin price, liquidity 0, fee_rate = bin_step
MeteoraState(addr, ma, mb, price, bin_step) ==
    PoolState(addr, "meteora", ma, mb, price, 0, 0, bin_step)

\* tokens.decimals_for_mint: decimals of a mint (USDC 6, mint 2 six, mint 3 nine)
decimals_for_mint(mint) == IF mint = 3 THEN 9 ELSE 6

\* x * (10 ** k) for a fixed-point x and an integer k
MulPow10(x, k) == IF k >= 0 THEN x * Pow10(k) ELSE x \div Pow10(-k)

\* the decimal-adjusted price token_b per token_a that _compute_rate,
\* _normalize_price and _normalize_ws_price derive from a state
adjusted_price(state) ==
    LET dec_a == decimals_for_mint(state.token_mint_a)
        dec_b == decimals_for_mint(state.token_mint_b)
    IN  IF state.dex = "orca" /\ state.sqrt_price_x64 > 0
        THEN MulPow10(raw_sqrt_price(state.sqrt_price_x64), dec_a - dec_b)
        ELSE IF state.dex = "meteora"
        THEN MulPow10(state.price, dec_a - dec_b)
        ELSE state.price

(***************************************************************************)
(* TriangularScanner                                                       *)
(***************************************************************************)
PriceEdge(from_mint, to_mint, rate, pool_address, dex, fee_bps) ==
    [from_mint |-> from_mint, to_mint |-> to_mint, rate |-> rate,
     pool_address |-> pool_address, dex |-> dex, fee_bps |-> fee_bps]

\* TriangularScanner._estimate_fee_bps
estimate_fee_bps(state) ==
    IF state.dex = "orca" /\ state.fee_rate > 0 THEN Max2(1, state.fee_rate \div 100)
    ELSE IF state.dex = "raydium_clmm" THEN 25
    ELSE IF state.dex = "raydium_v4" THEN 25
    ELSE IF state.dex = "meteora" THEN Max2(10, state.fee_rate)
    ELSE 30

\* TriangularScanner._compute_rate; None is modelled by 0 (every caller
\* tests "rate and rate > 0")
compute_rate(state, from_mint, to_mint) ==
    LET mint_a == state.token_mint_a
        mint_b == state.token_mint_b
        price  == adjusted_price(state)
    IN  IF ~((mint_a = from_mint /\ mint_b = to_mint) \/ (mint_a = to_mint /\ mint_b = from_mint))
        THEN 0
        ELSE IF state.dex = "raydium_v4" THEN 0
        ELSE IF state.dex \in {"raydium_clmm", "orca"} /\ state.liquidity = 0 THEN 0
        ELSE IF price <= 0 THEN 0
        ELSE IF mint_a = from_mint /\ mint_b = to_mint THEN price
        ELSE FixInv(price)

\* the edges build_graph derives from one fetched state: A -> B, then B -> A
state_edges(state) ==
    LET mint_a  == state.token_mint_a
        mint_b  == state.token_mint_b
        fee     == estimate_fee_bps(state)
        rate_ab == compute_rate(state, mint_a, mint_b)
        rate_ba == compute_rate(state, mint_b, mint_a)
    IN  (IF rate_ab > 0
         THEN <<PriceEdge(mint_a, mint_b, rate_ab, state.pool_address, state.dex, fee)>>
         ELSE <<>>)
        \o
        (IF rate_ba > 0
         THEN <<PriceEdge(mint_b, mint_a, rate_ba, state.pool_address, state.dex, fee)>>
         ELSE <<>>)

\* candidate_edges of build_graph, flattened in insertion order
candidate_edges(states) == Flatten([i \in DOMAIN states |-> state_edges(states[i])])

EdgeKey(e) == <<e.from_mint, e.to_mint>>

\* the keys of a dict in insertion order, from the sequence of inserted keys
RECURSIVE KeysInOrder(_, _)
KeysInOrder(ks, seen) ==
    IF ks = <<>> THEN <<>>
    ELSE IF Head(ks) \in seen THEN KeysInOrder(Tail(ks), seen)
    ELSE <<Head(ks)>> \o KeysInOrder(Tail(ks), seen \cup {Head(ks)})

\* sorted(xs) for a sequence of integers
RECURSIVE SortAsc(_)
SortAsc(xs) ==
    IF xs = <<>> THEN <<>>
    ELSE LET h    == Head(xs)
             rest == SortAsc(Tail(xs))
             LE(x) == x <= h
             GT(x) == x > h
         IN  SelectSeq(rest, LE) \o <<h>> \o SelectSeq(rest, GT)

\* rates[len(rates) // 2] of the sorted rates
median_rate(edges) ==
    LET rates == SortAsc([i \in DOMAIN edges |-> edges[i].rate])
    IN  rates[(Len(rates) \div 2) + 1]

\* the outlier filter of build_graph applied to the edges of one key
filter_outliers(edges) ==
    IF Len(edges) >= 2
    THEN LET m == median_rate(edges)
             Keep(e) == m <= 2 * e.rate /\ e.rate <= 2 * m
         IN  SelectSeq(edges, Keep)
    ELSE edges

\* TriangularScanner.build_graph: the new _graph from the fetched states
build_graph(states) ==
    LET cands == candidate_edges(states)
        keys  == KeysInOrder([i \in DOMAIN cands |-> EdgeKey(cands[i])], {})
        OfKey(k) == LET Is(e) == EdgeKey(e) = k IN filter_outliers(SelectSeq(cands, Is))
        kept  == Flatten([i \in DOMAIN keys |-> OfKey(keys[i])])
        froms == {kept[i].from_mint : i \in DOMAIN kept}
    IN  [m \in froms |-> LET From(e) == e.from_mint = m IN SelectSeq(kept, From)]

TriangularOpportunity(path, edges, round_trip_rate, gross_profit_bps, net_profit_bps, borrow_amount) ==
    [path |-> path, edges |-> edges, round_trip_rate |-> round_trip_rate,
     gross_profit_bps |-> gross_profit_bps, net_profit_bps |-> net_profit_bps,
     borrow_amount |-> borrow_amount, source |-> "triangular"]

\* self._graph.get(mint, [])
graph_get(g, mint) == DictGet(g, mint, <<>>)

\* first hop filter: skip x == usdc and, with a non-empty focus set, x outside it
first_hop_ok(x_mint, focus_mints) ==
    /\ x_mint # USDC
    /\ ~(focus_mints # {} /\ x_mint \notin focus_mints)

second_hop_ok_usdc_only(x_mint, y_mint) == ~(y_mint = USDC)

\* second hop filter: skip y == usdc or y == x
second_hop_ok(x_mint, y_mint) == ~(y_mint = USDC \/ y_mint = x_mint)

\* third hop filter: the edge must lead back to USDC
third_hop_ok(edge3) == edge3.to_mint = USDC

\* len({edge1.pool_address, edge2.pool_address, edge3.pool_address}) >= 3
pools_used_ok(edge1, edge2, edge3) ==
    Cardinality({edge1.pool_address, edge2.pool_address, edge3.pool_address}) >= 3

\* edge1.rate * edge2.rate * edge3.rate
round_trip_of(edge1, edge2, edge3) == FixMul(FixMul(edge1.rate, edge2.rate), edge3.rate)

plausible_upper_only(round_trip) == ~(round_trip > 1015000)

\* the sanity check: skipped when round_trip > 1.015 or round_trip < 0.5
plausible(round_trip) == ~(round_trip > 1015000 \/ round_trip < 500000)

\* 1 - fee_bps / 10000
fee_factor(fee_bps) == FP - fee_bps * 100

fee_mult_of(edge1, edge2, edge3) ==
    FixMul(FixMul(fee_factor(edge1.fee_bps), fee_factor(edge2.fee_bps)),
           fee_factor(edge3.fee_bps))

\* int((net_rate - 1.0) * 10000)
gross_bps_of(edge1, edge2, edge3) ==
    LET net_rate == FixMul(round_trip_of(edge1, edge2, edge3), fee_mult_of(edge1, edge2, edge3))
    IN  TruncDiv(net_rate - FP, 100)

sol_cost_bps == 3

net_bps_of(edge1, edge2, edge3, flash_fee_bps) ==
    gross_bps_of(edge1, edge2, edge3) - flash_fee_bps - sol_cost_bps

\* the edge triples that reach the profit computation, in loop order
scored_triples(g, focus_mints) ==
    LET usdc_edges == graph_get(g, USDC)
        Third(edge1, edge2) ==
            LET y_edges == graph_get(g, edge2.to_mint)
            IN  Flatten([k \in DOMAIN y_edges |->
                    IF /\ third_hop_ok(y_edges[k])
                       /\ pools_used_ok(edge1, edge2, y_edges[k])
                       /\ plausible(round_trip_of(edge1, edge2, y_edges[k]))
                    THEN << <<edge1, edge2, y_edges[k]>> >>
                    ELSE <<>>])
        Second(edge1) ==
            LET x_edges == graph_get(g, edge1.to_mint)
            IN  Flatten([j \in DOMAIN x_edges |->
                    IF second_hop_ok(edge1.to_mint, x_edges[j].to_mint)
                    THEN Third(edge1, x_edges[j])
                    ELSE <<>>])
    IN  Flatten([i \in DOMAIN usdc_edges |->
            IF first_hop_ok(usdc_edges[i].to_mint, focus_mints)
            THEN Second(usdc_edges[i])
            ELSE <<>>])

PathKey(x_mint, y_mint) == <<x_mint, y_mint>>

TripleKey(t) == PathKey(t[1].to_mint, t[2].to_mint)

SetMax(S) == CHOOSE x \in S : \A y \in S : y <= x

\* best_triangles after the loop: per path key the greatest net_bps seen
best_after(prev, triples, flash_fee_bps) ==
    LET keys == {TripleKey(triples[i]) : i \in DOMAIN triples}
        Seen(k) == {net_bps_of(triples[i][1], triples[i][2], triples[i][3], flash_fee_bps) :
                        i \in {j \in DOMAIN triples : TripleKey(triples[j]) = k}}
    IN  [k \in (DOMAIN prev) \cup keys |->
            IF k \notin keys THEN prev[k]
            ELSE IF k \in DOMAIN prev THEN SetMax(Seen(k) \cup {prev[k]})
            ELSE SetMax(Seen(k))]

\* the opportunities left in the order the loops found them
found_order(opps) == opps

\* opportunities.sort(key=net_profit_bps, reverse=True): stable, descending
RECURSIVE SortByNetDesc(_)
SortByNetDesc(opps) ==
    IF opps = <<>> THEN <<>>
    ELSE LET h    == Head(opps)
             rest == SortByNetDesc(Tail(opps))
             Above(o) == o.net_profit_bps > h.net_profit_bps
             NotAbove(o) == o.net_profit_bps <= h.net_profit_bps
         IN  SelectSeq(rest, Above) \o <<h>> \o SelectSeq(rest, NotAbove)

\* keep the first opportunity of every path key
RECURSIVE DedupByPath(_, _)
DedupByPath(opps, seen_paths) ==
    IF opps = <<>> THEN <<>>
    ELSE LET k == PathKey(Head(opps).path[2], Head(opps).path[3])
         IN  IF k \in seen_paths THEN DedupByPath(Tail(opps), seen_paths)
             ELSE <<Head(opps)>> \o DedupByPath(Tail(opps), seen_paths \cup {k})

\* TriangularScanner.scan_triangles: the returned opportunities
scan_triangles(g, cfg, borrow_amount, focus_mints) ==
    LET triples == scored_triples(g, focus_mints)
        Opp(t) == TriangularOpportunity(
                      <<USDC, t[1].to_mint, t[2].to_mint, USDC>>, t,
                      round_trip_of(t[1], t[2], t[3]),
                      gross_bps_of(t[1], t[2], t[3]),
                      net_bps_of(t[1], t[2], t[3], cfg.flash_fee_bps),
                      borrow_amount)
        Emitted(t) == net_bps_of(t[1], t[2], t[3], cfg.flash_fee_bps) >= cfg.min_profit_bps
        found == SelectSeq(triples, Emitted)
    IN  DedupByPath(SortByNetDesc([i \in DOMAIN found |-> Opp(found[i])]), {})

(***************************************************************************)
(* tokens.py: symbols, pairs and borrow overrides.  A pair string is kept  *)
(* as the tuple of its parts, the result of pair.split("/").               *)
(***************************************************************************)
WELL_KNOWN_MINTS == [USDC |-> 1, JUP |-> 2, SOL |-> 3]

resolve_mint(symbol_or_mint) ==
    IF symbol_or_mint \in DOMAIN WELL_KNOWN_MINTS
    THEN WELL_KNOWN_MINTS[symbol_or_mint] ELSE symbol_or_mint

\* parse_pair raises ValueError unless the pair has exactly two parts
parse_pair_raises(pair) == Len(pair) # 2

parse_pair(pair) == <<resolve_mint(pair[1]), resolve_mint(pair[2])>>

\* PAIR_BORROW_OVERRIDES.get(prefix, 0): 100 USDC for JUP, 0 for SOL
get_borrow_override(target_mint) == IF target_mint = 2 THEN 100000000 ELSE 0

(***************************************************************************)
(* CrossDexScanner                                                         *)
(***************************************************************************)
CrossDexOpportunity(pair, token_a, token_b, borrow_amount, buy_pool, sell_pool, buy_price, sell_price, spread_bps, estimated_profit_bps) ==
    [pair |-> pair, token_a |-> token_a, token_b |-> token_b,
     borrow_amount |-> borrow_amount, buy_pool |-> buy_pool, sell_pool |-> sell_pool,
     buy_price |-> buy_price, sell_price |-> sell_price, spread_bps |-> spread_bps,
     estimated_profit_bps |-> estimated_profit_bps, source |-> "cross_dex"]

\* CrossDexScanner._normalize_price: USDC per target; None is modelled by 0
normalize_price(state, quote_mint, target_mint) ==
    LET mint_a == state.token_mint_a
        mint_b == state.token_mint_b
        price  == adjusted_price(state)
    IN  IF ~((mint_a = target_mint /\ mint_b = quote_mint) \/ (mint_a = quote_mint /\ mint_b = target_mint))
        THEN 0
        ELSE IF state.dex = "raydium_v4" THEN 0
        ELSE IF price <= 0 THEN 0
        ELSE IF mint_a = target_mint /\ mint_b = quote_mint THEN price
        ELSE FixInv(price)

\* normalized.sort(key=lambda x: x[1]): stable, ascending
RECURSIVE SortByPriceAsc(_)
SortByPriceAsc(xs) ==
    IF xs = <<>> THEN <<>>
    ELSE LET h    == Head(xs)
             rest == SortByPriceAsc(Tail(xs))
             Below(x) == x.price < h.price
             NotBelow(x) == x.price >= h.price
         IN  SelectSeq(rest, Below) \o <<h>> \o SelectSeq(rest, NotBelow)

\* the (state, usdc_per_target) list of scan_pair, sorted
normalized_of(states, quote_mint, target_mint) ==
    LET Priced(st) == st.price > 0
        priced == SelectSeq(states, Priced)
        all == [i \in DOMAIN priced |->
                  [state |-> priced[i], price |-> normalize_price(priced[i], quote_mint, target_mint)]]
        Valid(x) == x.price > 0
    IN  IF Len(states) < 2 \/ Len(priced) < 2 THEN <<>>
        ELSE SortByPriceAsc(SelectSeq(all, Valid))

\* int((dearest_price - cheapest_price) / cheapest_price * 10000)
spread_bps_of(cheapest_price, dearest_price) ==
    DivPow10(dearest_price - cheapest_price, cheapest_price, 4)

sane_spread_off_by_ten(spread_bps) == ~(spread_bps > 5000)

\* the sanity check: scan_pair returns None when spread_bps > 500
sane_spread(spread_bps) == ~(spread_bps > 500)

swap_fee_bps == 60

xdex_sol_cost_bps == 2

\* CrossDexScanner.scan_pair, after parse_pair: [result, best]
scan_pair(cfg, prev_best, pair, default_borrow, states) ==
    LET target_mint == parse_pair(pair)[1]
        quote_mint  == parse_pair(pair)[2]
        override    == get_borrow_override(target_mint)
        borrow      == IF override > 0 THEN override ELSE default_borrow
        normalized  == normalized_of(states, quote_mint, target_mint)
        cheapest    == normalized[1]
        dearest     == normalized[Len(normalized)]
        spread_bps  == spread_bps_of(cheapest.price, dearest.price)
        total_cost_bps == cfg.pool_fee_bps + swap_fee_bps + xdex_sol_cost_bps
        best == IF pair \notin DOMAIN prev_best \/ spread_bps > DictGet(prev_best, pair, 0)
                THEN DictSet(prev_best, pair, spread_bps) ELSE prev_best
    IN  IF Len(normalized) < 2 THEN [result |-> <<>>, best |-> prev_best]
        ELSE IF ~sane_spread(spread_bps) THEN [result |-> <<>>, best |-> prev_best]
        ELSE IF spread_bps >= cfg.min_spread_bps
        THEN [result |-> <<CrossDexOpportunity(pair, quote_mint, target_mint, borrow,
                               cheapest.state, dearest.state, cheapest.price, dearest.price,
                               spread_bps, spread_bps - total_cost_bps)>>,
              best |-> best]
        ELSE [result |-> <<>>, best |-> best]

(***************************************************************************)
(* tx_builder.py: the three builders.  One build reads its environment     *)
(* (the aggregator's answers and the size of the compiled transaction)     *)
(* from a record env:                                                      *)
(*   quotes[i]  "ok", "filtered_fails" (the venue-filtered quote fails,    *)
(*              the unrestricted one answers) or "fails"                   *)
(*   out[i]     outAmount of leg i                                         *)
(*   swap_ok    the swap-instructions requests answer 200                  *)
(*   swaps[i]   [setup |-> number of setupInstructions,                    *)
(*               cleanup |-> a cleanupInstruction is present]              *)
(*   tx_bytes   len(bytes(tx))                                             *)
(***************************************************************************)
Ix(kind, leg, n) == [kind |-> kind, leg |-> leg, n |-> n]

append_swap_ixs_cleanup_first(instructions, swap_data, leg) ==
    instructions
    \o [j \in 1..swap_data.setup |-> Ix("setup", leg, j)]
    \o (IF swap_data.cleanup THEN <<Ix("cleanup", leg, 0)>> ELSE <<>>)
    \o <<Ix("swap", leg, 0)>>

\* _append_swap_ixs: setup instructions, the swap, the optional cleanup
append_swap_ixs(instructions, swap_data, leg) ==
    instructions
    \o [j \in 1..swap_data.setup |-> Ix("setup", leg, j)]
    \o <<Ix("swap", leg, 0)>>
    \o (IF swap_data.cleanup THEN <<Ix("cleanup", leg, 0)>> ELSE <<>>)

\* build_arb_transaction assembles its two legs inline
arb_leg_ixs(instructions, swap_data, leg) ==
    instructions
    \o [j \in 1..swap_data.setup |-> Ix("setup", leg, j)]
    \o <<Ix("swap", leg, 0)>>
    \o (IF swap_data.cleanup THEN <<Ix("cleanup", leg, 0)>> ELSE <<>>)

\* [set_compute_unit_limit, set_compute_unit_price, borrow_ix]
ix_prefix == <<Ix("set_cu_limit", 0, 0), Ix("set_cu_price", 0, 0), Ix("borrow", 0, 0)>>

\* instructions.append(repay_ix); if jito_tip_ix: instructions.append(jito_tip_ix)
ix_suffix(instructions, jito_tip_ix) ==
    instructions \o <<Ix("repay", 0, 0)>> \o (IF jito_tip_ix THEN <<Ix("tip", 0, 0)>> ELSE <<>>)

\* flash_fee = (opportunity.borrow_amount * 9 + 9999) // 10000
builder_flash_fee(borrow_amount) == (borrow_amount * 9 + 9999) \div 10000

stale_quote_strict(final_out, borrow_amount) == final_out < borrow_amount + builder_flash_fee(borrow_amount)

\* the stale-quote guard: raise when final_out <= borrow_amount + flash_fee
stale_quote(final_out, borrow_amount) == final_out <= borrow_amount + builder_flash_fee(borrow_amount)

MAX_TX_BYTES == 1232

too_large_off_by_one(tx_bytes) == tx_bytes > MAX_TX_BYTES + 1

\* if tx_bytes > 1232: raise
too_large(tx_bytes) == tx_bytes > MAX_TX_BYTES

BuildRaised(why) == [raised |-> TRUE, why |-> why]

BuildOk(kind, borrow_amount, final_out, instructions, env, unrestricted) ==
    IF too_large(env.tx_bytes) THEN BuildRaised("too_large")
    ELSE [raised |-> FALSE,
          tx |-> [kind |-> kind, borrow_amount |-> borrow_amount, final_out |-> final_out,
                  instructions |-> instructions, tx_bytes |-> env.tx_bytes,
                  unrestricted |-> unrestricted]]

\* build_arb_transaction
build_arb_transaction(opportunity, env, jito_tip_ix) ==
    IF env.quotes[1] # "ok" THEN BuildRaised("quote")
    ELSE IF env.quotes[2] # "ok" THEN BuildRaised("quote")
    ELSE IF stale_quote(env.out[2], opportunity.borrow_amount) THEN BuildRaised("stale")
    ELSE IF ~env.swap_ok THEN BuildRaised("swap_ix")
    ELSE BuildOk("arb", opportunity.borrow_amount, env.out[2],
                 ix_suffix(arb_leg_ixs(arb_leg_ixs(ix_prefix, env.swaps[1], 1), env.swaps[2], 2),
                           jito_tip_ix),
                 env, {})

\* build_triangular_transaction: every leg falls back to an unrestricted quote
build_triangular_transaction(opportunity, env, jito_tip_ix) ==
    IF \E i \in 1..3 : env.quotes[i] = "fails" THEN BuildRaised("quote")
    ELSE IF stale_quote(env.out[3], opportunity.borrow_amount) THEN BuildRaised("stale")
    ELSE IF ~env.swap_ok THEN BuildRaised("swap_ix")
    ELSE BuildOk("triangular", opportunity.borrow_amount, env.out[3],
                 ix_suffix(append_swap_ixs(append_swap_ixs(append_swap_ixs(
                               ix_prefix, env.swaps[1], 1), env.swaps[2], 2), env.swaps[3], 3),
                           jito_tip_ix),
                 env, {i \in 1..3 : env.quotes[i] = "filtered_fails"})

\* build_cross_dex_transaction: a failed venue-filtered quote raises
build_cross_dex_transaction(opportunity, env, jito_tip_ix) ==
    IF env.quotes[1] # "ok" THEN BuildRaised("quote")
    ELSE IF env.quotes[2] # "ok" THEN BuildRaised("quote")
    ELSE IF stale_quote(env.out[2], opportunity.borrow_amount) THEN BuildRaised("stale")
    ELSE IF ~env.swap_ok THEN BuildRaised("swap_ix")
    ELSE BuildOk("cross_dex", opportunity.borrow_amount, env.out[2],
                 ix_suffix(append_swap_ixs(append_swap_ixs(ix_prefix, env.swaps[1], 1),
                                           env.swaps[2], 2),
                           jito_tip_ix),
                 env, {})

\* the builder an execution path calls, by the kind of its opportunity
build_transaction(kind, opportunity, env, jito_tip_ix) ==
    IF kind = "arb" THEN build_arb_transaction(opportunity, env, jito_tip_ix)
    ELSE IF kind = "triangular" THEN build_triangular_transaction(opportunity, env, jito_tip_ix)
    ELSE build_cross_dex_transaction(opportunity, env, jito_tip_ix)

LegsOf(kind) == IF kind = "triangular" THEN 3 ELSE 2

(***************************************************************************)
(* Integer arithmetic on Python's unbounded integers: floor(a * k / d)     *)
(* computed without forming the product.                                   *)
(***************************************************************************)
\* one doubling step: from h = <<(r * j) div d, (r * j) mod d>> with
\* j = k div 2 to the same pair for k
MulDivStep(h, r, k, d) ==
    LET q2 == 2 * h[1]
        r2 == 2 * h[2]
        s  == IF r2 >= d THEN <<q2 + 1, r2 - d>> ELSE <<q2, r2>>
        r3 == s[2] + r
    IN  IF k % 2 = 0 THEN s
        ELSE IF r3 >= d THEN <<s[1] + 1, r3 - d>> ELSE <<s[1], r3>>

\* <<(r * k) div d, (r * k) mod d>> for 0 <= r < d, by doubling
RECURSIVE MulDivQR(_, _, _)
MulDivQR(r, k, d) ==
    IF k = 0 THEN <<0, 0>>
    ELSE CHOOSE x \in {MulDivStep(h, r, k, d) : h \in {MulDivQR(r, k \div 2, d)}} : TRUE

\* (a * k) // d for a >= 0, k >= 0, d > 0
MulDiv(a, k, d) == (a \div d) * k + MulDivQR(a % d, k, d)[1]

\* (amount * bps + 9999) // 10000
ceil_fee(amount, bps) == (amount \div 10000) * bps + ((amount % 10000) * bps + 9999) \div 10000

\* round(n * k / d): Python rounds halves to the even integer
RoundMulDiv(n, k, d) ==
    LET a  == IF n < 0 THEN -n ELSE n
        qr == MulDivQR(a % d, k, d)
        q  == (a \div d) * k + qr[1]
        m  == IF 2 * qr[2] > d THEN q + 1
              ELSE IF 2 * qr[2] = d THEN q + (q % 2)
              ELSE q
    IN  IF n < 0 THEN -m ELSE m

(***************************************************************************)
(* fee_strategy.py                                                         *)
(***************************************************************************)
\* FeeStrategy as PairScanner.__init__ builds it from the configuration
FeeStrategy(jito_tip, priority_fee_micro, compute_units) ==
    [min_tip |-> Max2(1000, jito_tip \div 10), max_tip |-> jito_tip * 10, tip_share |-> 40,
     min_cu_price |-> Max2(1000, priority_fee_micro \div 10),
     max_cu_price |-> priority_fee_micro * 8, base_cu_price |-> priority_fee_micro,
     compute_units |-> compute_units]

FeeParams(compute_unit_price, jito_tip_lamports, total_sol_cost) ==
    [compute_unit_price |-> compute_unit_price, jito_tip_lamports |-> jito_tip_lamports,
     total_sol_cost |-> total_sol_cost]

\* the default sol_price_usdc of compute_fees and estimate_sol_cost_usdc
SOL_PRICE_USDC == 85000000

\* FeeStrategy._total_sol
total_sol(fs, cu_price, tip) == 5000 + MulDiv(cu_price, fs.compute_units, 1000000) + tip

\* FeeParams(compute_unit_price=.., jito_tip_lamports=.., total_sol_cost=_total_sol(..))
fee_params_of(fs, cu_price, tip) == FeeParams(cu_price, tip, total_sol(fs, cu_price, tip))

\* compute_fees: tip = max(min_tip, min(int(profit_in_sol * tip_share), max_tip))
tip_for_profit(fs, profit_in_sol) ==
    Max2(fs.min_tip, Min2((profit_in_sol * fs.tip_share) \div 100, fs.max_tip))

\* compute_fees: the price tier of profit_bps_approx, clamped
cu_price_tier(fs, profit_bps_approx) ==
    Max2(fs.min_cu_price,
         Min2(IF profit_bps_approx >= 50 THEN fs.max_cu_price
              ELSE IF profit_bps_approx >= 20 THEN fs.max_cu_price \div 2
              ELSE IF profit_bps_approx >= 10 THEN fs.base_cu_price * 2
              ELSE fs.base_cu_price,
              fs.max_cu_price))

\* compute_fees: scale price and tip down when they exceed max_sol_budget
scale_down(fs, cu_price, tip, total, max_sol_budget) ==
    IF total > max_sol_budget /\ max_sol_budget > 0
    THEN fee_params_of(fs, Max2(fs.min_cu_price, MulDiv(cu_price, max_sol_budget, total)),
                       Max2(fs.min_tip, MulDiv(tip, max_sol_budget, total)))
    ELSE FeeParams(cu_price, tip, total)

\* compute_fees from profit_in_sol and profit_bps_approx on
fees_for_profit(fs, cu_price, tip, profit_in_sol) ==
    scale_down(fs, cu_price, tip, total_sol(fs, cu_price, tip), (profit_in_sol * 4) \div 5)

\* compute_fees for a positive net_before_sol
fees_for_net(fs, net_before_sol, flash_loan_fee, profit_in_sol) ==
    fees_for_profit(fs,
        cu_price_tier(fs, MulDiv(net_before_sol, 10000,
                                 Max2(flash_loan_fee * 1111 + flash_loan_fee \div 9, 1))),
        tip_for_profit(fs, profit_in_sol), profit_in_sol)

\* FeeStrategy.compute_fees
compute_fees(fs, gross_profit_usdc, flash_loan_fee) ==
    IF gross_profit_usdc - flash_loan_fee <= 0
    THEN fee_params_of(fs, fs.min_cu_price, fs.min_tip)
    ELSE fees_for_net(fs, gross_profit_usdc - flash_loan_fee, flash_loan_fee,
                      MulDiv(gross_profit_usdc - flash_loan_fee, 1000000000, SOL_PRICE_USDC))

\* FeeStrategy.estimate_sol_cost_usdc
estimate_sol_cost_usdc(total_sol_cost) == MulDiv(total_sol_cost, SOL_PRICE_USDC, 1000000000)

(***************************************************************************)
(* scanner.py: the aggregator scanner                                      *)
(***************************************************************************)
\* ArbitrageOpportunity(...) from net = gross - fee - sol_cost_in_token
ArbitrageOpportunity(pair, borrow_amount, leg2_out, fee, net, sol_cost_in_token, fee_params) ==
    [pair |-> pair, borrow_amount |-> borrow_amount, leg2_out |-> leg2_out,
     flash_loan_fee |-> fee,
     profit_bps |-> IF borrow_amount > 0 THEN RoundMulDiv(net, 10000, borrow_amount) ELSE 0,
     expected_profit |-> Max2(0, net), sol_costs |-> sol_cost_in_token,
     dynamic_cu_price |-> fee_params.compute_unit_price,
     dynamic_tip_lamports |-> fee_params.jito_tip_lamports, source |-> "aggregator"]

\* calculate_profit from sol_cost_in_token on
profit_with_costs(pair, borrow_amount, leg2_out, fee, sol_cost_in_token, fee_params) ==
    ArbitrageOpportunity(pair, borrow_amount, leg2_out, fee,
                         leg2_out - borrow_amount - fee - sol_cost_in_token, sol_cost_in_token,
                         fee_params)

\* calculate_profit from fee_params on: without Jito the tip is left out
profit_with_fees(pair, borrow_amount, leg2_out, fee, fs, use_jito, fee_params) ==
    profit_with_costs(pair, borrow_amount, leg2_out, fee,
        IF use_jito THEN estimate_sol_cost_usdc(fee_params.total_sol_cost)
        ELSE estimate_sol_cost_usdc(total_sol(fs, fee_params.compute_unit_price, 0)),
        fee_params)

\* calculate_profit from the flash loan fee on
profit_with_fee(pair, borrow_amount, leg2_out, fee, fs, use_jito) ==
    profit_with_fees(pair, borrow_amount, leg2_out, fee, fs, use_jito,
                     compute_fees(fs, leg2_out - borrow_amount, fee))

\* calculate_profit
calculate_profit(pair, borrow_amount, leg2_out, pool_fee_bps, fs, use_jito) ==
    profit_with_fee(pair, borrow_amount, leg2_out, ceil_fee(borrow_amount, pool_fee_bps), fs,
                    use_jito)

\* PairScanner.scan_pair once _scan_direction returned opp
pair_scan_found(sc, prev_best, pair, opp) ==
    [result |-> IF opp.profit_bps >= sc.min_profit_bps THEN <<opp>> ELSE <<>>,
     best   |-> IF pair \notin DOMAIN prev_best \/ opp.profit_bps > prev_best[pair]
                THEN DictSet(prev_best, pair, opp.profit_bps) ELSE prev_best]

\* borrow = override if override > 0 else default_borrow
borrow_for(target_mint, default_borrow) ==
    IF get_borrow_override(target_mint) > 0 THEN get_borrow_override(target_mint)
    ELSE default_borrow

\* PairScanner.scan_pair after parse_pair: quotes is what the two get_quote
\* calls answer, [ok |-> FALSE] when one of them raises or leg 1 gives 0
pair_scan(sc, prev_best, pair, default_borrow, quotes) ==
    IF ~quotes.ok THEN [result |-> <<>>, best |-> prev_best]
    ELSE pair_scan_found(sc, prev_best, pair,
             calculate_profit(pair, borrow_for(parse_pair(pair)[1], default_borrow),
                              borrow_for(parse_pair(pair)[1], default_borrow) + quotes.gain,
                              sc.pool_fee_bps, sc.fee_strategy, sc.use_jito))

(***************************************************************************)
(* main.py: ArbitrageEngine                                                *)
(*                                                                         *)
(* The engine runs two asyncio tasks, the scan loop ("scan") and the       *)
(* reactive worker ("ws"); a step of a task runs from one await to the     *)
(* next.  execs is the history of the executions started so far: what was  *)
(* built, whether it was simulated, submitted and confirmed.               *)
(***************************************************************************)
Tasks == {"scan", "ws"}

\* priority_pairs of _scan_loop
PRIORITY_PAIRS ==
    {<<"SOL", "USDC">>, <<"MSOL", "USDC">>, <<"JITOSOL", "USDC">>, <<"BSOL", "USDC">>,
     <<"JUP", "USDC">>, <<"TRUMP", "USDC">>, <<"ORCA", "USDC">>, <<"INF", "USDC">>}

\* Metrics.__init__
Metrics ==
    [scan_cycles |-> 0, opportunities_found |-> 0, cross_dex_opps |-> 0, triangular_opps |-> 0,
     ws_updates |-> 0, successful_arbs |-> 0, simulation_failures |-> 0,
     execution_failures |-> 0, total_profit |-> 0]

Inc(m, field) == [m EXCEPT ![field] = @ + 1]

\* BotConfig with its defaults and the fields the environment sets
BotConfig(pairs, dry_run, use_jito, max_consecutive_failures, ws_url) ==
    [pairs |-> pairs, dry_run |-> dry_run, use_jito |-> use_jito,
     max_consecutive_failures |-> max_consecutive_failures, ws_url |-> ws_url,
     borrow_amount |-> 200000000, min_profit_bps |-> 5, priority_fee_micro_lamports |-> 25000,
     compute_unit_limit |-> 400000, jito_tip_lamports |-> 10000]

\* PairScanner.__init__ as the engine calls it
PairScanner(cfg, pool_fee_bps) ==
    [pool_fee_bps |-> pool_fee_bps, min_profit_bps |-> cfg.min_profit_bps,
     use_jito |-> cfg.use_jito,
     fee_strategy |-> FeeStrategy(cfg.jito_tip_lamports, cfg.priority_fee_micro_lamports,
                                  cfg.compute_unit_limit)]

\* all_mints of the scan loop: GRAPH_TOKENS without USDC, resolved; SOL is
\* first and JUP third, the other twenty mints have no pools in this model
GRAPH_MINTS == [i \in 1..22 |-> IF i = 1 THEN 3 ELSE IF i = 3 THEN 2 ELSE 100 + i]

TRI_BATCH == 10

\* the first TRI_BATCH mints whatever the batch index
batch_unrotated(batch_idx) == {GRAPH_MINTS[i] : i \in 1..TRI_BATCH}

\* batch_mints = set(all_mints[start:start + 10])
batch_mints(batch_idx) ==
    LET start == (batch_idx * TRI_BATCH) % Len(GRAPH_MINTS)
    IN  {GRAPH_MINTS[i] : i \in {j \in 1..Len(GRAPH_MINTS) : start < j /\ j <= start + TRI_BATCH}}

\* _find_pair_for_pool: <<>> for None
find_pair_for_pool(cfg, pool_info) ==
    LET Sym(m) == {s \in DOMAIN WELL_KNOWN_MINTS : WELL_KNOWN_MINTS[s] = m}
        a == Sym(pool_info.token_a)
        b == Sym(pool_info.token_b)
        Match(p) == \E sa \in a, sb \in b : p = <<sa, sb>> \/ p = <<sb, sa>>
        hits == SelectSeq(cfg.pairs, Match)
    IN  IF a = {} \/ b = {} \/ hits = <<>> THEN <<>> ELSE <<hits[1]>>

\* _normalize_ws_price
normalize_ws_price(state) == IF state.dex = "raydium_v4" THEN 0 ELSE adjusted_price(state)

\* the tip of the MEV endpoint: None unless self.jito and config.use_jito
\* (start() creates the client exactly when use_jito is set)
jito_tip(cfg, lamports) == IF cfg.use_jito THEN <<lamports>> ELSE <<>>

\* max(1_000, min(50_000, bps * 100))
tip_for_bps(bps) == Max2(1000, Min2(50000, bps * 100))

\* a started execution: which path runs it, the opportunity (pair is its
\* pair, <<>> for a triangular one; venues holds the dex tags of a
\* cross-venue opportunity's buy and sell pool) and the tip
Execution(task, kind, pair, borrow_amount, est_profit, tip, ret, venues) ==
    [task |-> task, kind |-> kind, pair |-> pair, borrow_amount |-> borrow_amount,
     est_profit |-> est_profit, tip |-> tip, ret |-> ret, venues |-> venues, pc |-> "build",
     built |-> <<>>, sim |-> "none", sent |-> "none", confirm |-> "none"]

\* _execute(opp)
execute_arb(cfg, task, opp, ret) ==
    Execution(task, "arb", opp.pair, opp.borrow_amount, opp.expected_profit,
              jito_tip(cfg, IF opp.dynamic_tip_lamports # 0 THEN opp.dynamic_tip_lamports
                            ELSE cfg.jito_tip_lamports), ret, <<>>)

\* _execute_cross_dex(opp)
execute_cross_dex(cfg, task, opp, ret) ==
    Execution(task, "cross_dex", opp.pair, opp.borrow_amount,
              MulDiv(opp.borrow_amount, opp.estimated_profit_bps, 10000),
              jito_tip(cfg, tip_for_bps(opp.estimated_profit_bps)), ret,
              <<opp.buy_pool.dex, opp.sell_pool.dex>>)

\* _execute_triangular(opp)
execute_triangular(cfg, task, opp, ret) ==
    Execution(task, "triangular", <<>>, opp.borrow_amount,
              MulDiv(opp.borrow_amount, opp.net_profit_bps, 10000),
              jito_tip(cfg, tip_for_bps(opp.net_profit_bps)), ret, <<>>)

scan_gate_profit_only(opp) == opp.estimated_profit_bps >= 2

\* the scan loop's gate on a cross-venue opportunity
scan_gate(opp) == opp.estimated_profit_bps >= 2 /\ opp.buy_pool.dex # opp.sell_pool.dex

\* the reactive worker's gate before the time check
ws_gate(opp) == ~(opp.buy_pool.dex = opp.sell_pool.dex) /\ ~(opp.estimated_profit_bps < 5)

\* flash_fee = (opp.borrow_amount * 9 + 9999) // 10000 of the reactive worker
ws_stale(final_out, borrow_amount) == final_out <= borrow_amount + (borrow_amount * 9 + 9999) \div 10000

kill_at_strictly_more(consecutive, max_consecutive_failures) == consecutive > max_consecutive_failures

\* if self.consecutive_failures >= self.config.max_consecutive_failures
kill_at(consecutive, max_consecutive_failures) == consecutive >= max_consecutive_failures

dry_run_never(cfg) == FALSE

\* if self.config.dry_run: log, else execute
is_dry_run(cfg) == cfg.dry_run

send_regardless(success) == TRUE

\* if not success: count the simulation failure and return
simulation_passed(success) == success

\* ArbitrageEngine.__init__: nothing started
EngIdle ==
    /\ config = BotConfig(<<>>, TRUE, FALSE, 10, FALSE)
    /\ scanner = PairScanner(BotConfig(<<>>, TRUE, FALSE, 10, FALSE), 9)
    /\ running = FALSE /\ consecutive_failures = 0 /\ metrics = Metrics
    /\ agg_best = <<>> /\ tri_batch_idx = 0 /\ pool_prices = <<>> /\ ws_arb_queue = <<>>
    /\ scan_pc = "off" /\ cycle_count = 0 /\ pairs_to_scan = <<>> /\ scan_i = 0 /\ tri_todo = <<>>
    /\ ws_pc = "off" /\ ws_opp = <<>> /\ recent_scans = {} /\ recent_executions = {}
    /\ exec_of = [t \in Tasks |-> 0] /\ execs = <<>>
    /\ cycle_log = <<>> /\ kill_switch = FALSE

(***************************************************************************)
(* PoolRegistry                                                            *)
(***************************************************************************)
MaxRegisterCalls == 3

RegAddrs == {"pA", "pB"}
RegDexes == {"orca"}

\* PoolInfo(address, program_id, dex, token_a, token_b, label): program_id is
\* determined by dex and label is display only.
PoolInfo(address, dex, token_a, token_b) ==
    [address |-> address, dex |-> dex, token_a |-> token_a, token_b |-> token_b]

RegPoolInfos ==
    {PoolInfo(a, d, ma, mb) : a \in RegAddrs, d \in RegDexes, ma \in Mints, mb \in Mints}

\* PoolRegistry._pair_key: f"{min(mint_a, mint_b)}:{max(mint_a, mint_b)}"
pair_key(mint_a, mint_b) == <<Min2(mint_a, mint_b), Max2(mint_a, mint_b)>>

\* PairPools(token_a, token_b, pools=[])
PairPools(token_a, token_b) == [token_a |-> token_a, token_b |-> token_b, pools |-> <<>>]

\* the _pairs dictionary after the "if key not in self._pairs" statement
pairs_with_key(pairs, pool) ==
    LET key == pair_key(pool.token_a, pool.token_b)
    IN  IF key \in DOMAIN pairs THEN pairs
        ELSE DictSet(pairs, key, PairPools(pool.token_a, pool.token_b))

\* PoolRegistry.register_pool with the duplicate test made on the pair's own list
register_pool_dup_per_pair(pairs, pools, pool) ==
    LET key == pair_key(pool.token_a, pool.token_b)
        p1  == pairs_with_key(pairs, pool)
    IN  IF \E i \in DOMAIN p1[key].pools : p1[key].pools[i].address = pool.address
        THEN [pairs |-> p1, pools |-> pools]
        ELSE [pairs |-> [p1 EXCEPT ![key].pools = Append(@, pool)],
              pools |-> DictSet(pools, pool.address, pool)]

\* PoolRegistry.register_pool: the new (_pairs, _pools)
register_pool(pairs, pools, pool) ==
    LET key == pair_key(pool.token_a, pool.token_b)
        p1  == pairs_with_key(pairs, pool)
    IN  IF pool.address \notin DOMAIN pools
        THEN [pairs |-> [p1 EXCEPT ![key].pools = Append(@, pool)],
              pools |-> DictSet(pools, pool.address, pool)]
        ELSE [pairs |-> p1, pools |-> pools]

\* PoolRegistry.get_pair_pools: None is modelled by the string "None"
get_pair_pools(mint_a, mint_b) ==
    LET key == pair_key(mint_a, mint_b)
    IN  IF key \in DOMAIN reg_pairs THEN reg_pairs[key] ELSE "None"

\* the pool list fetch_pool_states walks for (mint_a, mint_b)
fetch_pool_list(mint_a, mint_b) ==
    LET key == pair_key(mint_a, mint_b)
    IN  IF key \in DOMAIN reg_pairs THEN reg_pairs[key].pools ELSE <<>>

\* PoolRegistry.total_pools
total_pools == Cardinality(DOMAIN reg_pools)

\* PoolRegistry.total_pairs
total_pairs == Cardinality(DOMAIN reg_pairs)

RegInit ==
    /\ reg_pairs = <<>>
    /\ reg_pools = <<>>
    /\ reg_calls = [a \in RegAddrs |-> 0]

\* TriangularScanner.__init__ with the default parameters
TriIdle ==
    /\ tri_cfg = [flash_fee_bps |-> 9, min_profit_bps |-> 15]
    /\ tri_states = <<>>
    /\ graph = <<>>
    /\ best_triangles = <<>>
    /\ tri_focus = {}
    /\ tri_opps = <<>>

\* CrossDexScanner.__init__ with the default parameters
XdexIdle ==
    /\ xdex_cfg = [pool_fee_bps |-> 9, min_spread_bps |-> 15]
    /\ best_spreads = <<>>
    /\ xdex_call = <<>>
    /\ xdex_raised = FALSE
    /\ xdex_result = <<>>

\* compute_fees has not been called
FeeIdle ==
    /\ fee_call = <<>>
    /\ fee_result = <<>>

\* ALTManager.__init__, no state file, no table on chain
AltIdle ==
    /\ table_address = 0 /\ table_account = <<>> /\ known_addresses = {}
    /\ alt_state_file = 0 /\ alt_chain = <<>> /\ alt_call = <<>>

EmptyMap == [x \in {} |-> 0]

\* PoolStreamer.__init__
StrIdle ==
    /\ str_pc = "idle" /\ str_running = FALSE /\ str_request_id = 0
    /\ str_subscriptions = EmptyMap /\ str_pool_to_info = <<>>
    /\ str_conn = 0 /\ str_sent = <<>> /\ str_pending = <<>> /\ str_server = EmptyMap
    /\ str_inbox = <<>> /\ str_log = <<>>

\* the worker has not been started
WstIdle ==
    /\ wst_dry_run = TRUE /\ wst_clock = 0 /\ wst_pc = "off" /\ wst_pair = "" /\ wst_now = 0
    /\ wst_recent_scans = EmptyMap /\ wst_recent_executions = EmptyMap /\ wst_log = <<>>

\* QuoteProvider.__init__
QpIdle ==
    /\ qp_use_raydium = TRUE /\ qp_clock = 0 /\ qp_cooldown_until = 0 /\ qp_pc = "idle"
    /\ qp_throttled_at = -1 /\ qp_calls = <<>>

\* ArbitrageEngine.__init__: start() has not been called
LifeIdle ==
    /\ life_cfg = [use_jito |-> FALSE, ws_url |-> FALSE] /\ life_pc = "new"
    /\ life_open = {} /\ life_exit = ""

\* no confirmation has been asked for
CfIdle ==
    /\ cf_pc = "idle" /\ cf_polls = 0 /\ cf_height = "" /\ cf_result = ""
    /\ cf_status = [answer |-> "", err |-> FALSE, confirmation_status |-> ""]

AuxIdle == FeeIdle /\ AltIdle /\ StrIdle /\ WstIdle /\ QpIdle /\ LifeIdle /\ CfIdle

\* no build has been asked for
BldIdle ==
    /\ bld_call = <<>>
    /\ bld_result = <<>>

RegisterPool(pool) ==
    /\ reg_calls[pool.address] < MaxRegisterCalls
    /\ LET r == register_pool(reg_pairs, reg_pools, pool)
       IN  /\ reg_pairs' = r.pairs
           /\ reg_pools' = r.pools
    /\ reg_calls' = [reg_calls EXCEPT ![pool.address] = @ + 1]
    /\ UNCHANGED regOthers

RegistryRegister == \E pool \in RegPoolInfos : RegisterPool(pool)

NextRegistry == RegistryRegister

InitRegistry == RegInit /\ TriIdle /\ XdexIdle /\ BldIdle /\ EngIdle /\ AuxIdle

SpecRegistry == InitRegistry /\ [][NextRegistry]_vars

OccurrencesOf(a) ==
    Cardinality({<<k, i>> \in (DOMAIN reg_pairs) \X (1..Cardinality(RegAddrs) * MaxRegisterCalls) :
                    /\ i \in DOMAIN reg_pairs[k].pools
                    /\ reg_pairs[k].pools[i].address = a})

(* C7: after any sequence of register_pool calls every registered address    *)
(* sits in exactly one pair entry exactly once and total_pools counts it     *)
(* once; the pair key does not depend on the order of the two mints, so      *)
(* get_pair_pools and fetch_pool_states answer the same for either order.    *)
C7_RegistryIdempotent ==
    /\ \A a \in RegAddrs :
          OccurrencesOf(a) = (IF reg_calls[a] > 0 THEN 1 ELSE 0)
    /\ total_pools = Cardinality({a \in RegAddrs : reg_calls[a] > 0})
    /\ \A a \in DOMAIN reg_pools :
          \E i \in DOMAIN fetch_pool_list(reg_pools[a].token_a, reg_pools[a].token_b) :
             fetch_pool_list(reg_pools[a].token_b, reg_pools[a].token_a)[i] = reg_pools[a]
    /\ \A ma \in Mints, mb \in Mints :
          /\ get_pair_pools(ma, mb) = get_pair_pools(mb, ma)
          /\ fetch_pool_list(ma, mb) = fetch_pool_list(mb, ma)

\* the same address was registered three times, the last two with other mints
C7_Witness ==
    \E a \in RegAddrs :
       /\ reg_calls[a] = 3
       /\ a \in DOMAIN reg_pools
       /\ Cardinality(DOMAIN reg_pairs) >= 2
       /\ OccurrencesOf(a) = 1

(***************************************************************************)
(* TriangularScanner: the pool states the chain may return, and the two    *)
(* public steps build_graph and scan_triangles.                            *)
(***************************************************************************)
\* Pool states grouped by registry pair, as fetch_pool_states returns them.
\* Mint 2 has 6 decimals, mint 3 has 9.  t22 has the same mint on both sides
\* (the decoders do not compare the two mints they read).
TriUniverse ==
    << OrcaState("t12a", 1, 2, 1000, 5, 100),
       ClmmState("t12b", 2, 1, 990000, 7),
       ClmmState("t22", 2, 2, 1000000, 1),
       MeteoraState("t32b", 3, 2, 75000, 5),
       ClmmState("t31a", 3, 1, 76000000, 9),
       OrcaState("t13b", 1, 3, 2569, 4, 0) >>

\* the same pools, a third pool of the pair (3, 1) quoting 2.5 times the
\* price of t31a, and a third pool of the pair (2, 1) at 1.005
TriPools ==
    TriUniverse \o <<ClmmState("t31c", 3, 1, 190000000, 9), ClmmState("t12c", 2, 1, 1005000, 7)>>

\* the snapshots a scan may find: any of the first six pools; the third
\* 3/1 pool alone, next to t31a, and next to t12a and t31a; the third 2/1
\* pool next to t12a, t32b and t31a
TriSnapshots == SUBSET (DOMAIN TriUniverse) \cup {{7}, {5, 7}, {1, 5, 7}, {1, 4, 5, 8}}

\* the sub-sequence of a sequence at the positions in idx
RECURSIVE SubSeqAt(_, _, _)
SubSeqAt(seq, idx, i) ==
    IF i > Len(seq) THEN <<>>
    ELSE (IF i \in idx THEN <<seq[i]>> ELSE <<>>) \o SubSeqAt(seq, idx, i + 1)

TriConfigs == {[flash_fee_bps |-> 9, min_profit_bps |-> 15],
               [flash_fee_bps |-> 30, min_profit_bps |-> -9999]}
TriFocusSets == {{}, {2}}
TriBorrowAmounts == {200000000}

TriInit ==
    /\ tri_cfg \in TriConfigs
    /\ tri_states = <<>>
    /\ graph = <<>>
    /\ best_triangles = <<>>
    /\ tri_focus = {}
    /\ tri_opps = <<>>

\* the opportunities and the best_triangles one scan_triangles call leaves
scan_result(g, cfg, prev_best, borrow_amount, focus_mints) ==
    [opps |-> scan_triangles(g, cfg, borrow_amount, focus_mints),
     best |-> best_after(prev_best, scored_triples(g, focus_mints), cfg.flash_fee_bps)]

\* one triangular pass as scan_once and the scan loop run it:
\* await build_graph(), then await scan_triangles(borrow_amount, focus_mints)
ScanOnce(states, borrow_amount, focus_mints) ==
    LET g == build_graph(states)
        r == scan_result(g, tri_cfg, best_triangles, borrow_amount, focus_mints)
    IN  /\ tri_states' = states
        /\ graph' = g
        /\ tri_focus' = focus_mints
        /\ tri_opps' = r.opps
        /\ best_triangles' = r.best
        /\ UNCHANGED tri_cfg
        /\ UNCHANGED triOthers

TriScanOnce ==
    \E idx \in TriSnapshots, b \in TriBorrowAmounts, f \in TriFocusSets :
        ScanOnce(SubSeqAt(TriPools, idx, 1), b, f)

NextTri == TriScanOnce

InitTri == TriInit /\ RegInit /\ XdexIdle /\ BldIdle /\ EngIdle /\ AuxIdle

SpecTri == InitTri /\ [][NextTri]_vars

\* every edge of the current graph
GraphEdges == UNION {Range(graph[m]) : m \in DOMAIN graph}

\* the edge triples of the current graph that lead from USDC back to USDC
ClosedCycles ==
    {t \in GraphEdges \X GraphEdges \X GraphEdges :
        /\ t[1].from_mint = USDC /\ t[1].to_mint = t[2].from_mint
        /\ t[2].to_mint = t[3].from_mint /\ t[3].to_mint = USDC}

(* C8: every opportunity scan_triangles returns has the path [Q, X, Y, Q]    *)
(* with Q the quote anchor, X # Q, Y # Q, X # Y, its three edges follow that *)
(* path, and they come from three mutually distinct pool addresses.          *)
C8_CycleDistinctness ==
    \A i \in DOMAIN tri_opps :
       LET o == tri_opps[i]
       IN  /\ Len(o.path) = 4 /\ Len(o.edges) = 3
           /\ o.path[1] = USDC /\ o.path[4] = USDC
           /\ o.path[2] # USDC /\ o.path[3] # USDC /\ o.path[2] # o.path[3]
           /\ \A k \in 1..3 : /\ o.edges[k].from_mint = o.path[k]
                              /\ o.edges[k].to_mint = o.path[k + 1]
           /\ o.edges[1].pool_address # o.edges[2].pool_address
           /\ o.edges[2].pool_address # o.edges[3].pool_address
           /\ o.edges[1].pool_address # o.edges[3].pool_address

\* an opportunity was returned although the graph holds an edge from a mint
\* to itself and the pool of the first hop also has an edge back to USDC
C8_Witness ==
    /\ tri_opps # <<>>
    /\ \E e \in GraphEdges : e.from_mint = e.to_mint /\ e.from_mint = tri_opps[1].path[2]
    /\ Cardinality({e \in GraphEdges : e.from_mint = tri_opps[1].path[2] /\ e.to_mint = USDC}) >= 2

(* C9: every opportunity scan_triangles returns has round_trip_rate equal    *)
(* to the product of its three edge rates and within [0.5, 1.015]; a cycle   *)
(* of the graph whose product lies outside that interval is not among the    *)
(* returned opportunities, whatever its net margin.                          *)
C9_PlausibilityBound ==
    /\ \A i \in DOMAIN tri_opps :
          /\ tri_opps[i].round_trip_rate =
                FixMul(FixMul(tri_opps[i].edges[1].rate, tri_opps[i].edges[2].rate),
                       tri_opps[i].edges[3].rate)
          /\ tri_opps[i].round_trip_rate >= 500000
          /\ tri_opps[i].round_trip_rate <= 1015000
    /\ \A t \in ClosedCycles :
          LET rt == FixMul(FixMul(t[1].rate, t[2].rate), t[3].rate)
          IN  (rt > 1015000 \/ rt < 500000) =>
                 \A i \in DOMAIN tri_opps : tri_opps[i].edges # t

\* the last scan returned an opportunity while the graph also held a closed
\* cycle above 1.015 and one below 0.5 whose net margin met min_profit_bps
C9_Witness ==
    /\ tri_opps # <<>>
    /\ \E t \in ClosedCycles :
          /\ t[1].to_mint # USDC /\ t[2].to_mint \notin {USDC, t[1].to_mint}
          /\ FixMul(FixMul(t[1].rate, t[2].rate), t[3].rate) > 1015000
          /\ net_bps_of(t[1], t[2], t[3], tri_cfg.flash_fee_bps) >= tri_cfg.min_profit_bps
    /\ \E t \in ClosedCycles :
          /\ t[1].to_mint # USDC /\ t[2].to_mint \notin {USDC, t[1].to_mint}
          /\ FixMul(FixMul(t[1].rate, t[2].rate), t[3].rate) < 500000
          /\ net_bps_of(t[1], t[2], t[3], tri_cfg.flash_fee_bps) >= tri_cfg.min_profit_bps

\* twice the median of a key's candidate rates: the middle rate twice, or
\* the sum of the two middle rates when their number is even
Median2(rates) ==
    LET sorted == SortAsc(rates)
        n      == Len(sorted)
    IN  IF n % 2 = 1 THEN 2 * sorted[(n + 1) \div 2]
        ELSE sorted[n \div 2] + sorted[(n \div 2) + 1]

\* the candidate edges of one key, and the edges of that key in the graph
CandidatesOf(k) == SelectSeq(candidate_edges(tri_states), LAMBDA e : EdgeKey(e) = k)
GraphOf(k) ==
    IF k[1] \in DOMAIN graph THEN SelectSeq(graph[k[1]], LAMBDA e : e.to_mint = k[2]) ELSE <<>>

\* C28: after build_graph the graph holds, for every key with at least two
\* candidate edges, exactly the candidates whose rate lies in
\* [0.5 * median, 2.0 * median], median being the median of the key's
\* candidate rates, and a key with one candidate keeps it.
C28_OutlierFilter ==
    \A k \in {EdgeKey(e) : e \in Range(candidate_edges(tri_states))} :
       IF Len(CandidatesOf(k)) >= 2
       THEN GraphOf(k) =
               SelectSeq(CandidatesOf(k),
                         LAMBDA e : /\ Median2([i \in DOMAIN CandidatesOf(k) |->
                                                   CandidatesOf(k)[i].rate]) <= 4 * e.rate
                                    /\ e.rate <= Median2([i \in DOMAIN CandidatesOf(k) |->
                                                            CandidatesOf(k)[i].rate]))
       ELSE GraphOf(k) = CandidatesOf(k)

\* the pair (3, 1) had the two candidates 76.0 and 190.0, median 133.0, both
\* within [66.5, 266.0], and the graph holds only the edge at 190.0
C28_Witness ==
    /\ Len(tri_states) = 2
    /\ tri_states[1].pool_address = "t31a" /\ tri_states[2].pool_address = "t31c"
    /\ Len(CandidatesOf(<<3, 1>>)) = 2
    /\ CandidatesOf(<<3, 1>>)[1].rate = 76000000 /\ CandidatesOf(<<3, 1>>)[2].rate = 190000000
    /\ Len(GraphOf(<<3, 1>>)) = 1 /\ GraphOf(<<3, 1>>)[1].pool_address = "t31c"

\* floor((net_rate - 1) * 10000) - flash_fee_bps - 3 of an edge triple
FloorNet(t) ==
    ((FixMul(round_trip_of(t[1], t[2], t[3]), fee_mult_of(t[1], t[2], t[3])) - FP) \div 100)
        - tri_cfg.flash_fee_bps - sol_cost_bps

\* the cycles the last scan scored whose net margin met min_profit_bps
Qualifying ==
    {t \in Range(scored_triples(graph, tri_focus)) : FloorNet(t) >= tri_cfg.min_profit_bps}

XdexPairs == {<<"SOL", "USDC">>, <<"JUP", "USDC">>, <<"SOLUSDC">>}

\* SOL has 9 decimals, JUP and USDC have 6
XdexUniverse(pair) ==
    IF pair = <<"SOL", "USDC">>
    THEN << ClmmState("x1", 3, 1, 100000000, 5),
            ClmmState("x2", 3, 1, 102000000, 5),
            OrcaState("x3", 1, 3, 3146, 4, 30),
            MeteoraState("x4", 3, 1, 99990, 10),
            ClmmState("x5", 3, 1, 105000000, 0),
            V4State("x6", 3, 1),
            ClmmState("x7", 3, 1, 100500000, 5) >>
    ELSE IF pair = <<"JUP", "USDC">>
    THEN << ClmmState("j1", 2, 1, 1000000, 5),
            ClmmState("j2", 2, 1, 10000000, 5),
            OrcaState("j3", 1, 2, 1000, 2, 30) >>
    ELSE <<>>

XdexConfigs == {[pool_fee_bps |-> 9, min_spread_bps |-> 15],
                [pool_fee_bps |-> 30, min_spread_bps |-> 150]}
XdexBorrowAmounts == {200000000}

XdexInit ==
    /\ xdex_cfg \in XdexConfigs
    /\ best_spreads = <<>>
    /\ xdex_call = <<>>
    /\ xdex_raised = FALSE
    /\ xdex_result = <<>>

\* await scan_pair(pair, default_borrow), the registry returning states
ScanPair(pair, default_borrow, states) ==
    /\ xdex_call' = <<[pair |-> pair, default_borrow |-> default_borrow, states |-> states]>>
    /\ IF parse_pair_raises(pair)
       THEN /\ xdex_raised' = TRUE
            /\ xdex_result' = <<>>
            /\ UNCHANGED best_spreads
       ELSE LET r == scan_pair(xdex_cfg, best_spreads, pair, default_borrow, states)
            IN  /\ xdex_raised' = FALSE
                /\ xdex_result' = r.result
                /\ best_spreads' = r.best
    /\ UNCHANGED xdex_cfg
    /\ UNCHANGED xdexOthers

XdexScanPair ==
    \E pair \in XdexPairs, b \in XdexBorrowAmounts :
       \E idx \in SUBSET (DOMAIN XdexUniverse(pair)) :
          ScanPair(pair, b, SubSeqAt(XdexUniverse(pair), idx, 1))

NextXdex == XdexScanPair

InitXdex == XdexInit /\ RegInit /\ TriIdle /\ BldIdle /\ EngIdle /\ AuxIdle

SpecXdex == InitXdex /\ [][NextXdex]_vars

\* the normalized prices of the pools the last scan_pair call compared
CallPrices ==
    IF xdex_call = <<>> \/ xdex_raised THEN {}
    ELSE LET c == xdex_call[1]
             target_mint == parse_pair(c.pair)[1]
             quote_mint == parse_pair(c.pair)[2]
         IN  {normalize_price(c.states[i], quote_mint, target_mint) :
                 i \in {j \in DOMAIN c.states : c.states[j].price > 0}} \ {0}

SetMin(S) == CHOOSE x \in S : \A y \in S : x <= y

(* C10: every opportunity scan_pair returns has 0 <= spread_bps <= 500 and   *)
(* buy_price <= sell_price, its prices being the cheapest and the dearest    *)
(* normalized price; when the spread between the cheapest and the dearest    *)
(* normalized price exceeds 500 bps scan_pair returns nothing.               *)
C10_SanityGate ==
    /\ \A i \in DOMAIN xdex_result :
          /\ xdex_result[i].spread_bps >= 0
          /\ xdex_result[i].spread_bps <= 500
          /\ xdex_result[i].buy_price <= xdex_result[i].sell_price
          /\ xdex_result[i].buy_price = SetMin(CallPrices)
          /\ xdex_result[i].sell_price = SetMax(CallPrices)
    /\ (Cardinality(CallPrices) >= 2
        /\ DivPow10(SetMax(CallPrices) - SetMin(CallPrices), SetMin(CallPrices), 4) > 500)
       => xdex_result = <<>>

\* pools priced 1.00 and 10.00 were compared and nothing was returned, after
\* an earlier call had returned an opportunity at exactly 500 bps
C10_Witness ==
    /\ xdex_result = <<>>
    /\ CallPrices = {1000000, 10000000}
    /\ <<"SOL", "USDC">> \in DOMAIN best_spreads
    /\ best_spreads[<<"SOL", "USDC">>] = 500

(* C11: scan_pair emits an opportunity only if the estimated net margin,     *)
(* spread_bps minus the flash-loan fee bps minus 60 bps of swap fees minus   *)
(* 2 bps of transaction overhead, is at least the scanner's configured       *)
(* threshold; with flash fee 9 a spread of 200 bps is estimated at 129 net.  *)
C11_EmissionThreshold ==
    \A i \in DOMAIN xdex_result :
       /\ xdex_result[i].estimated_profit_bps =
              xdex_result[i].spread_bps - xdex_cfg.pool_fee_bps - 60 - 2
       /\ xdex_result[i].estimated_profit_bps >= xdex_cfg.min_spread_bps
       /\ (xdex_cfg.pool_fee_bps = 9 /\ xdex_result[i].spread_bps = 200)
              => xdex_result[i].estimated_profit_bps = 129

\* with the default threshold of 15 and fee of 9, pools priced 100.0 and 100.5
\* give a spread of 50 bps and an emitted opportunity estimated at -21 bps
C11_Witness ==
    /\ xdex_cfg = [pool_fee_bps |-> 9, min_spread_bps |-> 15]
    /\ xdex_result # <<>>
    /\ xdex_result[1].spread_bps = 50
    /\ xdex_result[1].estimated_profit_bps = -21


(***************************************************************************)
(* The builders on their own: each step is one call of one of the three    *)
(* builders with an opportunity, an optional tip instruction and the       *)
(* answers of the aggregator.                                              *)
(***************************************************************************)
MaxSetup == 2

BuilderBorrowAmounts == {200000000}

SwapDatas == [setup : 0..MaxSetup, cleanup : BOOLEAN]

\* the outputs of the last leg on either side of the stale-quote threshold
FinalOuts(borrow_amount) ==
    {borrow_amount + builder_flash_fee(borrow_amount),
     borrow_amount + builder_flash_fee(borrow_amount) + 1}

BuildEnvs(n, borrow_amount) ==
    {[quotes |-> q, out |-> [i \in 1..n |-> IF i = n THEN f ELSE borrow_amount], swap_ok |-> ok,
      swaps |-> sw, tx_bytes |-> b] :
        q \in [1..n -> {"ok", "filtered_fails", "fails"}], f \in FinalOuts(borrow_amount),
        ok \in BOOLEAN, sw \in [1..n -> SwapDatas], b \in {MAX_TX_BYTES, MAX_TX_BYTES + 1}}

\* a caller is about to call one of the builders with an opportunity, an
\* optional tip instruction and the aggregator's answers
BldInit ==
    /\ \E k \in {"arb", "triangular", "cross_dex"}, b \in BuilderBorrowAmounts, tip \in BOOLEAN :
          \E env \in BuildEnvs(LegsOf(k), b) :
              bld_call = <<[kind |-> k, opportunity |-> [borrow_amount |-> b], env |-> env,
                            jito_tip_ix |-> tip]>>
    /\ bld_result = <<>>

BuildArb ==
    /\ bld_result = <<>> /\ bld_call[1].kind = "arb"
    /\ bld_result' = <<build_arb_transaction(bld_call[1].opportunity, bld_call[1].env,
                                             bld_call[1].jito_tip_ix)>>
    /\ UNCHANGED <<bld_call, bldOthers>>

BuildTriangular ==
    /\ bld_result = <<>> /\ bld_call[1].kind = "triangular"
    /\ bld_result' = <<build_triangular_transaction(bld_call[1].opportunity, bld_call[1].env,
                                                    bld_call[1].jito_tip_ix)>>
    /\ UNCHANGED <<bld_call, bldOthers>>

BuildCrossDex ==
    /\ bld_result = <<>> /\ bld_call[1].kind = "cross_dex"
    /\ bld_result' = <<build_cross_dex_transaction(bld_call[1].opportunity, bld_call[1].env,
                                                   bld_call[1].jito_tip_ix)>>
    /\ UNCHANGED <<bld_call, bldOthers>>

NextBuilder == BuildArb \/ BuildTriangular \/ BuildCrossDex

InitBuilder == BldInit /\ RegInit /\ TriIdle /\ XdexIdle /\ EngIdle /\ AuxIdle

SpecBuilder == InitBuilder /\ [][NextBuilder]_vars

\* the positions of the instructions of one kind (and leg) in a sequence
Positions(ixs, kind, leg) == {p \in DOMAIN ixs : ixs[p].kind = kind /\ ixs[p].leg = leg}

KindPositions(ixs, kind) == {p \in DOMAIN ixs : ixs[p].kind = kind}

\* the layout [set-CU-limit, set-CU-price, borrow, (setup_i, swap_i, cleanup_i)_i, repay, tip?]
WellOrdered(ixs, n, swaps, tip) ==
    /\ Len(ixs) >= 4 + n
    /\ ixs[1].kind = "set_cu_limit" /\ ixs[2].kind = "set_cu_price" /\ ixs[3].kind = "borrow"
    /\ KindPositions(ixs, "set_cu_limit") = {1}
    /\ KindPositions(ixs, "set_cu_price") = {2}
    /\ KindPositions(ixs, "borrow") = {3}
    /\ Cardinality(KindPositions(ixs, "repay")) = 1
    /\ Cardinality(KindPositions(ixs, "tip")) = (IF tip THEN 1 ELSE 0)
    /\ tip => ixs[Len(ixs)].kind = "tip" /\ ixs[Len(ixs) - 1].kind = "repay"
    /\ ~tip => ixs[Len(ixs)].kind = "repay"
    /\ \A i \in 1..n :
          /\ Cardinality(Positions(ixs, "swap", i)) = 1
          /\ Cardinality(Positions(ixs, "setup", i)) = swaps[i].setup
          /\ Cardinality(Positions(ixs, "cleanup", i)) = (IF swaps[i].cleanup THEN 1 ELSE 0)
          /\ \A s \in Positions(ixs, "swap", i) :
                /\ \A b \in KindPositions(ixs, "borrow") : b < s
                /\ \A r \in KindPositions(ixs, "repay") : s < r
                /\ \A u \in Positions(ixs, "setup", i) : u < s
                /\ \A c \in Positions(ixs, "cleanup", i) : s < c
    /\ \A p \in DOMAIN ixs, q \in DOMAIN ixs :
          (p < q /\ ixs[p].leg > 0 /\ ixs[q].leg > 0) => ixs[p].leg <= ixs[q].leg
    /\ \A p \in DOMAIN ixs :
          ixs[p].kind \in {"setup", "swap", "cleanup"} => ixs[p].leg \in 1..n
    /\ \A p \in DOMAIN ixs :
          ixs[p].kind \in {"setup", "swap", "cleanup"} =>
              /\ p > 3
              /\ \A r \in KindPositions(ixs, "repay") : p < r

\* C3: every transaction a builder returns is laid out as set-CU-limit,
\* set-CU-price, one borrow, then per leg in order its setup instructions,
\* its swap and its optional cleanup, then one repay, then the tip when one
\* was supplied -- so borrow precedes and repay follows every swap and the
\* tip is last.
C3_InstructionOrdering ==
    (bld_result # <<>> /\ ~bld_result[1].raised) =>
        WellOrdered(bld_result[1].tx.instructions, LegsOf(bld_call[1].kind),
                    bld_call[1].env.swaps, bld_call[1].jito_tip_ix)

\* a three-leg transaction with a tip whose legs carry setup and cleanup
C3_Witness ==
    /\ bld_result # <<>> /\ ~bld_result[1].raised
    /\ bld_call[1].kind = "triangular" /\ bld_call[1].jito_tip_ix
    /\ \A i \in 1..3 : bld_call[1].env.swaps[i].setup = MaxSetup /\ bld_call[1].env.swaps[i].cleanup
    /\ Len(bld_result[1].tx.instructions) = 5 + 3 * (MaxSetup + 2)

\* C16: in the cross-venue and the triangular builder a leg whose
\* venue-filtered quote fails is quoted again without the filter and the build
\* goes on with that quote: the build fails on a quote only when a leg's
\* unrestricted quote fails too, and a build that completes lists exactly the
\* legs that fell back.
C16_VenueFilterFallback ==
    \A i \in DOMAIN bld_result :
       bld_call[1].kind \in {"triangular", "cross_dex"} =>
          /\ (bld_result[i].raised /\ bld_result[i].why = "quote")
                => \E leg \in DOMAIN bld_call[1].env.quotes : bld_call[1].env.quotes[leg] = "fails"
          /\ ~bld_result[i].raised
                => bld_result[i].tx.unrestricted
                      = {leg \in DOMAIN bld_call[1].env.quotes :
                            bld_call[1].env.quotes[leg] = "filtered_fails"}

\* the cross-venue builder was called, the filtered quote of its first leg
\* failed while an unrestricted one would have answered, and the build raised
C16_Witness ==
    /\ bld_result # <<>>
    /\ bld_call[1].kind = "cross_dex"
    /\ bld_call[1].env.quotes = <<"filtered_fails", "ok">>
    /\ bld_result[1].raised /\ bld_result[1].why = "quote"


(***************************************************************************)
(* FeeStrategy.compute_fees on its own: each step is one call on the       *)
(* strategy a PairScanner builds, with a gross profit and a flash-loan fee *)
(* in USDC lamports.                                                       *)
(***************************************************************************)
\* the strategies of the default configuration and of a tenfold tip
FeeStrategies == {FeeStrategy(10000, 25000, 400000), FeeStrategy(100000, 25000, 400000)}

\* the fee of borrowing 200 USDC at 9 bps and at 30 bps, and of 1 USDC at 9 bps
FeeFlashFees == {180000, 600000, 900}

\* gross - flash_loan_fee, from a loss to a profit of 2 USDC
FeeNets ==
    {-1000, 0, 1} \cup {850 * k : k \in 1..40}
        \cup {999, 1000, 2000, 2550, 4000, 220000, 720000, 2000000}

FeeInit == FeeIdle

\* compute_fees(gross_profit_usdc, flash_loan_fee)
ComputeFees ==
    \E fs \in FeeStrategies, fee \in FeeFlashFees, net \in FeeNets :
       \E r \in {compute_fees(fs, fee + net, fee)} :
          /\ fee_call' = <<[fs |-> fs, gross_profit_usdc |-> fee + net, flash_loan_fee |-> fee]>>
          /\ fee_result' = <<r>>
          /\ UNCHANGED feeOthers

NextFees == ComputeFees

InitFees == FeeInit /\ RegInit /\ TriIdle /\ XdexIdle /\ BldIdle /\ EngIdle /\ AltIdle /\ StrIdle /\ WstIdle /\ QpIdle /\ LifeIdle /\ CfIdle

SpecFees == InitFees /\ [][NextFees]_vars

\* profit_in_sol of the last call
FeeProfitInSol ==
    MulDiv(fee_call[1].gross_profit_usdc - fee_call[1].flash_loan_fee, 1000000000, SOL_PRICE_USDC)

(* C13: for every compute_fees result with gross_profit - flash_fee > 0 in   *)
(* which neither the tip nor the compute-unit price sits at its configured   *)
(* floor, total_sol_cost (base fee + priority fee + tip) is at most          *)
(* 0.80 * profit_in_sol.                                                     *)
C13_FeeCap ==
    (/\ fee_call # <<>>
     /\ fee_call[1].gross_profit_usdc - fee_call[1].flash_loan_fee > 0
     /\ fee_result[1].jito_tip_lamports > fee_call[1].fs.min_tip
     /\ fee_result[1].compute_unit_price > fee_call[1].fs.min_cu_price)
    => /\ fee_result[1].total_sol_cost =
              total_sol(fee_call[1].fs, fee_result[1].compute_unit_price,
                        fee_result[1].jito_tip_lamports)
       /\ 5 * fee_result[1].total_sol_cost <= 4 * FeeProfitInSol

\* a profit of 0.00255 USDC, 30000 lamports: tip 10666 and price 22222 are
\* above their floors and the total of 24554 lamports exceeds the cap of 24000
C13_Witness ==
    /\ fee_call # <<>>
    /\ fee_call[1].gross_profit_usdc = 182550 /\ fee_call[1].flash_loan_fee = 180000
    /\ fee_call[1].fs = FeeStrategy(10000, 25000, 400000)
    /\ fee_result[1] = FeeParams(22222, 10666, 24554)

(* C36: for a fixed flash-loan fee and FeeStrategy, the tip compute_fees     *)
(* returns is non-decreasing in the gross profit: no call with a smaller     *)
(* gross profit gets a larger tip than the last call got.                    *)
C36_TipMonotone ==
    fee_call # <<>> =>
        \A net \in FeeNets :
            fee_call[1].flash_loan_fee + net <= fee_call[1].gross_profit_usdc
            => compute_fees(fee_call[1].fs, fee_call[1].flash_loan_fee + net,
                            fee_call[1].flash_loan_fee).jito_tip_lamports
               <= fee_result[1].jito_tip_lamports

\* borrowing 1 USDC: a net of 1000 reaches the 10 bps tier, the doubled price
\* halves the scale and the tip is 1490, below the 2242 a net of 999 gets
C36_Witness ==
    /\ fee_call # <<>>
    /\ fee_call[1].fs = FeeStrategy(10000, 25000, 400000)
    /\ fee_call[1].gross_profit_usdc = 1900 /\ fee_call[1].flash_loan_fee = 900
    /\ fee_result[1] = FeeParams(15840, 1490, 12826)
    /\ compute_fees(fee_call[1].fs, 1899, 900) = FeeParams(11930, 2242, 12014)

(***************************************************************************)
(* alt_manager.py: ALTManager.  Pubkeys are numbers, the authority is 0.   *)
(* A call is one step; env tells where the RPC node lets it fail:          *)
(*   init_load   "chain" or "raise": _load_table inside initialize()       *)
(*   create      "ok", "raise_before" (get_slot, get_latest_blockhash or   *)
(*               send_transaction raises) or "raise_after"                 *)
(*               (confirm_transaction or _load_table raises)               *)
(*   fail_batch  0, or the number of the extend batch whose blockhash,     *)
(*               send or confirm raises                                    *)
(*   reload      "ok" or "raise": _load_table at the end of extend()       *)
(***************************************************************************)
AUTHORITY == 0

\* for i in range(0, len(new_addrs), 20)
ALT_BATCH == 20

AltState(ta, acct, known, file, chain) ==
    [table_address |-> ta, table_account |-> acct, known_addresses |-> known,
     state_file |-> file, chain |-> chain, raised |-> FALSE, created |-> FALSE,
     txs |-> <<>>, reloaded |-> FALSE]

\* _load_table: None without an address or an account, else the parsed table
load_table(st) ==
    IF st.table_address = 0 THEN <<>>
    ELSE IF ~st.chain[st.table_address].exists THEN <<>>
    ELSE <<st.chain[st.table_address].addresses>>

\* _create_table
create_table(st, env) ==
    IF env.create = "raise_before" THEN [st EXCEPT !.raised = TRUE]
    ELSE LET made == [st EXCEPT !.chain = Append(st.chain, [exists |-> TRUE, addresses |-> <<>>]),
                                !.table_address = Len(st.chain) + 1,
                                !.known_addresses = {},
                                !.state_file = Len(st.chain) + 1,
                                !.created = TRUE]
         IN  IF env.create = "raise_after" THEN [made EXCEPT !.raised = TRUE]
             ELSE [made EXCEPT !.table_account = load_table(made)]

\* initialize(): load the saved table, or create one
initialize(st, env) ==
    IF st.state_file # 0
    THEN LET saved == [st EXCEPT !.table_address = st.state_file]
         IN  IF env.init_load = "raise" \/ load_table(saved) = <<>>
             THEN create_table(saved, env)
             ELSE [saved EXCEPT !.table_account = load_table(saved),
                                !.known_addresses = Range(load_table(saved)[1])]
    ELSE create_table(st, env)

\* the addresses extend() has to add: unknown and not the authority
new_addrs(addresses, known) ==
    SelectSeq(addresses, LAMBDA a : a \notin known /\ a # AUTHORITY)

alt_batches_single(addrs) == IF addrs = <<>> THEN <<>> ELSE <<addrs>>

\* batch = new_addrs[i:i + 20] for i in range(0, len(new_addrs), 20)
RECURSIVE alt_batches(_)
alt_batches(addrs) ==
    IF addrs = <<>> THEN <<>>
    ELSE <<SubSeq(addrs, 1, Min2(ALT_BATCH, Len(addrs)))>>
         \o alt_batches(SubSeq(addrs, ALT_BATCH + 1, Len(addrs)))

known_after_first_batch(known, sent) == known \cup (IF sent = <<>> THEN {} ELSE Range(sent[1]))

\* for a in batch: self.known_addresses.add(str(a)), for every batch sent
known_after(known, sent) == known \cup Range(Flatten(sent))

\* the loop of extend() over the batches bs, done of them confirmed, and the reload
extend_batches(st, bs, done, env) ==
    LET sent  == SubSeq(bs, 1, done)
        t     == st.table_address
        grown == [st EXCEPT !.known_addresses = known_after(st.known_addresses, sent),
                            !.chain[t].addresses = @ \o Flatten(sent),
                            !.txs = sent]
    IN  IF done < Len(bs) \/ env.reload = "raise" THEN [grown EXCEPT !.raised = TRUE]
        ELSE [grown EXCEPT !.table_account = load_table(grown), !.reloaded = TRUE]

\* how many batches are confirmed before the RPC node fails; a table that is
\* not on chain fails the first send
batches_done(st, bs, env) ==
    IF ~st.chain[st.table_address].exists THEN 0
    ELSE IF env.fail_batch = 0 \/ env.fail_batch > Len(bs) THEN Len(bs)
    ELSE env.fail_batch - 1

\* extend(addresses)
extend(st, addresses, env) ==
    IF st.table_address = 0 THEN st
    ELSE IF new_addrs(addresses, st.known_addresses) = <<>> THEN st
    ELSE extend_batches(st, alt_batches(new_addrs(addresses, st.known_addresses)),
                        batches_done(st, alt_batches(new_addrs(addresses, st.known_addresses)),
                                     env), env)

extend_after(st, addresses, env) == IF st.raised THEN st ELSE extend(st, addresses, env)

\* ensure_accounts(accounts)
ensure_accounts(st, accounts, env) ==
    IF st.table_address = 0 THEN extend_after(initialize(st, env), accounts, env)
    ELSE extend(st, accounts, env)

(***************************************************************************)
(* ALTManager on its own: the state file and the chain a run may start     *)
(* with, and the three public calls.                                       *)
(***************************************************************************)
MaxTables == 2

\* the account lists handed in: 25 and 20 pubkeys, one with the authority,
\* one with a pubkey listed twice, and the empty list
AltAccountLists ==
    {[i \in 1..25 |-> i], [i \in 1..20 |-> i], <<AUTHORITY, 1, 2>>, <<50, 50, 51>>, <<>>}

AltEnvs ==
    [init_load : {"chain", "raise"}, create : {"ok", "raise_before", "raise_after"},
     fail_batch : 0..2, reload : {"ok", "raise"}]

\* a first run, a run that finds its saved table, and one whose saved table
\* is gone from the chain
AltInit ==
    /\ table_address = 0 /\ table_account = <<>> /\ known_addresses = {} /\ alt_call = <<>>
    /\ \/ alt_state_file = 0 /\ alt_chain = <<>>
       \/ alt_state_file = 1 /\ alt_chain = <<[exists |-> TRUE, addresses |-> <<1, 2, 3>>]>>
       \/ alt_state_file = 1 /\ alt_chain = <<[exists |-> FALSE, addresses |-> <<>>]>>

\* the calls made so far, at most MaxAltCalls
MaxAltCalls == 3

AltCalls == IF alt_call = <<>> THEN 0 ELSE alt_call[1].n

\* the manager's state after a call, and what the call did
AltCall(op, accounts, r) ==
    /\ AltCalls < MaxAltCalls
    /\ table_address' = r.table_address
    /\ table_account' = r.table_account
    /\ known_addresses' = r.known_addresses
    /\ alt_state_file' = r.state_file
    /\ alt_chain' = r.chain
    /\ alt_call' = <<[n |-> AltCalls + 1, op |-> op, accounts |-> accounts, known_before |-> known_addresses,
                      table_before |-> table_address,
                      raised |-> r.raised, created |-> r.created, txs |-> r.txs,
                      reloaded |-> r.reloaded]>>
    /\ UNCHANGED altOthers

AltNow == AltState(table_address, table_account, known_addresses, alt_state_file, alt_chain)

\* await alt_mgr.initialize()
AltInitialize ==
    \E env \in AltEnvs :
    \E r \in {initialize(AltNow, env)} :
       /\ Len(r.chain) <= MaxTables
       /\ AltCall("initialize", <<>>, r)

\* await alt_mgr.extend(addresses)
AltExtend ==
    \E accounts \in AltAccountLists, env \in AltEnvs :
    \E r \in {extend(AltNow, accounts, env)} :
       AltCall("extend", accounts, r)

\* await alt_mgr.ensure_accounts(accounts)
AltEnsureAccounts ==
    \E accounts \in AltAccountLists, env \in AltEnvs :
    \E r \in {ensure_accounts(AltNow, accounts, env)} :
       /\ Len(r.chain) <= MaxTables
       /\ AltCall("ensure_accounts", accounts, r)

NextAlt == AltInitialize \/ AltExtend \/ AltEnsureAccounts

InitAlt == AltInit /\ RegInit /\ TriIdle /\ XdexIdle /\ BldIdle /\ EngIdle /\ FeeIdle /\ StrIdle /\ WstIdle /\ QpIdle /\ LifeIdle /\ CfIdle

SpecAlt == InitAlt /\ [][NextAlt]_vars

\* C14: whenever ensure_accounts(S) returns normally every pubkey of S other
\* than the authority is in known_addresses, and no ensure_accounts or extend
\* call, returning or raising, takes an element out of known_addresses unless
\* it created a brand-new table.
C14_LookupTableGrowth ==
    \A i \in DOMAIN alt_call :
       /\ (alt_call[i].op = "ensure_accounts" /\ ~alt_call[i].raised)
             => (Range(alt_call[i].accounts) \ {AUTHORITY}) \subseteq known_addresses
       /\ (alt_call[i].op \in {"ensure_accounts", "extend"} /\ ~alt_call[i].created)
             => alt_call[i].known_before \subseteq known_addresses

\* an ensure_accounts call on a table that knew two pubkeys sent two batches
\* for 25 new ones and returned
C14_Witness ==
    /\ alt_call # <<>>
    /\ alt_call[1].op = "ensure_accounts" /\ ~alt_call[1].raised
    /\ alt_call[1].known_before = {50, 51}
    /\ Len(alt_call[1].accounts) = 25 /\ Len(alt_call[1].txs) = 2
    /\ known_addresses = {50, 51} \cup 1..25

CeilDiv(n, d) == (n + d - 1) \div d

\* C15: an extend call that returns, on a manager that has a table, with n
\* entries of its input unknown and not the authority, sends exactly
\* ceil(n/20) extend transactions of at most 20 pubkeys, the i-th carrying
\* entries 20(i-1)+1 .. min(20i, n) of the new pubkeys in input order (20
\* and 5 for n = 25); with n = 0 it sends nothing and does not reload.
C15_ExtendBatching ==
    \A i \in DOMAIN alt_call :
       (alt_call[i].op = "extend" /\ ~alt_call[i].raised /\ alt_call[i].table_before # 0) =>
          LET new == SelectSeq(alt_call[i].accounts,
                               LAMBDA a : a \notin alt_call[i].known_before /\ a # AUTHORITY)
              n   == Len(new)
              txs == alt_call[i].txs
          IN  /\ Len(txs) = CeilDiv(n, 20)
              /\ \A k \in DOMAIN txs :
                    /\ Len(txs[k]) <= 20
                    /\ txs[k] = SubSeq(new, 20 * (k - 1) + 1, Min2(20 * k, n))
              /\ (n = 25 => Len(txs) = 2 /\ Len(txs[1]) = 20 /\ Len(txs[2]) = 5)
              /\ (n = 0 => txs = <<>> /\ ~alt_call[i].reloaded)

\* extend with 25 new pubkeys returned after a batch of 20 and a batch of 5
C15_Witness ==
    /\ alt_call # <<>>
    /\ alt_call[1].op = "extend" /\ ~alt_call[1].raised /\ alt_call[1].reloaded
    /\ Len(alt_call[1].txs) = 2
    /\ alt_call[1].txs[1] = [j \in 1..20 |-> j]
    /\ alt_call[1].txs[2] = [j \in 1..5 |-> 20 + j]

\* a sequence without a repeated element
NoDup(s) == \A i, j \in DOMAIN s : i # j => s[i] # s[j]

\* C40: no extend transaction carries the authority, a pubkey already known
\* for the table it extends, or a pubkey twice, and no table on chain lists
\* an address twice.
C40_NoDuplicateEntries ==
    /\ \A t \in DOMAIN alt_chain : NoDup(alt_chain[t].addresses)
    /\ alt_call # <<>> =>
          /\ NoDup(Flatten(alt_call[1].txs))
          /\ AUTHORITY \notin Range(Flatten(alt_call[1].txs))
          /\ alt_call[1].table_before = table_address =>
                Range(Flatten(alt_call[1].txs)) \cap alt_call[1].known_before = {}

\* extend was handed a list that names pubkey 50 twice: one transaction
\* carried it twice and the table now lists it twice
C40_Witness ==
    /\ alt_call # <<>> /\ alt_call[1].op = "extend" /\ ~alt_call[1].raised
    /\ alt_call[1].accounts = <<50, 50, 51>>
    /\ alt_call[1].txs = <<<<50, 50, 51>>>>
    /\ table_address # 0
    /\ Cardinality({i \in DOMAIN alt_chain[table_address].addresses :
                       alt_chain[table_address].addresses[i] = 50}) = 2

\* C34: the state file is written only once the create transaction is
\* confirmed: a call that raises with no table account loaded (the create
\* transaction was not sent, or its confirmation failed) leaves the state
\* file as it was.
C34_CreateThenPersist ==
    [][(alt_call' # alt_call /\ alt_call'[1].raised /\ table_account' = <<>>) =>
          alt_state_file' = alt_state_file]_vars

\* a first run with no state file: the create transaction was sent, its
\* confirmation raised, and the state file names the new table
C34_Witness ==
    /\ alt_call # <<>> /\ alt_call[1].op = "initialize"
    /\ alt_call[1].created /\ alt_call[1].raised /\ alt_call[1].n = 1
    /\ Len(alt_chain) = 1 /\ table_account = <<>>
    /\ alt_state_file = 1 /\ table_address = 1

(***************************************************************************)
(* pool_streamer.py: PoolStreamer, and the server at the other end of the  *)
(* WebSocket.  A message is a record: a subscription confirmation          *)
(* [type "result", id, result] or an account notification                  *)
(* [type "notification", subscription, account, decodes], account being    *)
(* the address of the account that changed and decodes whether decode_pool *)
(* returns a state for its data.                                           *)
(***************************************************************************)
MapPut(f, k, v) == [x \in DOMAIN f \cup {k} |-> IF x = k THEN v ELSE f[x]]

\* the registry's pools start() collects: none, or two pools
StrPoolLists == {<<>>, <<"poolA", "poolB">>}

\* the subscription ids the server hands out
StrSubIds == {7, 8, 9}

MaxConnections == 2
MaxNotifications == 2

\* _subscribe_all: one accountSubscribe per pool, the first k of them sent
subscribe_all(request_id, pool_to_info, k) ==
    [j \in 1..k |-> [id |-> request_id + j, address |-> pool_to_info[j]]]

\* _handle_message, subscription confirmation: idx = req_id - 1 into the
\* address list, recorded when 0 <= idx < len(addresses)
record_subscription(subscriptions, msg, pool_to_info) ==
    IF 0 <= msg.id - 1 /\ msg.id - 1 < Len(pool_to_info)
    THEN MapPut(subscriptions, msg.result, pool_to_info[msg.id])
    ELSE subscriptions

\* _handle_message, account notification: what the callback is called with,
\* <<>> when the message is dropped
notify(subscriptions, msg) ==
    IF msg.subscription \notin DOMAIN subscriptions THEN <<>>
    ELSE IF ~msg.decodes THEN <<>>
    ELSE <<subscriptions[msg.subscription]>>

\* decode_pool is called outside any try of _handle_message: its exception
\* leaves _handle_message and the async for of start()
handler_raises(subscriptions, msg) == msg.subscription \in DOMAIN subscriptions /\ msg.raises

\* start(): collect the pools; return when there are none
StrStart ==
    /\ str_pc = "idle"
    /\ \E pools \in StrPoolLists :
          /\ str_pool_to_info' = pools
          /\ str_pc' = IF pools = <<>> THEN "returned" ELSE "connect"
    /\ str_running' = TRUE
    /\ UNCHANGED <<str_request_id, str_subscriptions, str_conn, str_sent, str_pending,
                   str_server, str_inbox, str_log, strOthers>>

\* while self._running: websockets.connect(...) and _subscribe_all(); the
\* connect or one of the sends may raise
StrConnect ==
    /\ str_pc = "connect" /\ str_running
    /\ str_conn < MaxConnections
    /\ \E connected \in BOOLEAN, k \in 0..Len(str_pool_to_info) :
          IF ~connected
          THEN /\ k = 0
               /\ str_pc' = "backoff"
               /\ UNCHANGED <<str_request_id, str_conn, str_sent, str_pending>>
          ELSE /\ str_conn' = str_conn + 1
               /\ str_request_id' = str_request_id + k
               /\ str_sent' = subscribe_all(str_request_id, str_pool_to_info, k)
               /\ str_pending' = IF k = Len(str_pool_to_info)
                                 THEN subscribe_all(str_request_id, str_pool_to_info, k)
                                 ELSE <<>>
               /\ str_pc' = IF k = Len(str_pool_to_info) THEN "reading" ELSE "backoff"
    /\ str_server' = EmptyMap /\ str_inbox' = <<>>
    /\ UNCHANGED <<str_running, str_subscriptions, str_pool_to_info, str_log, strOthers>>

\* the server answers the oldest open request with a subscription id that is
\* free on this connection
StrServerConfirm ==
    /\ str_pc = "reading" /\ str_pending # <<>>
    /\ \E s \in StrSubIds \ DOMAIN str_server :
          /\ str_server' = MapPut(str_server, s, Head(str_pending).address)
          /\ str_inbox' = Append(str_inbox, [type |-> "result", id |-> Head(str_pending).id,
                                             result |-> s])
    /\ str_pending' = Tail(str_pending)
    /\ UNCHANGED <<str_pc, str_running, str_request_id, str_subscriptions, str_pool_to_info,
                   str_conn, str_sent, str_log, strOthers>>

StrNotifications == Len(str_log) + Cardinality({i \in DOMAIN str_inbox : str_inbox[i].type = "notification"})

\* what decode_pool makes of a notification's data: a pool state, None (too
\* short, unknown program; bad base64 returns before it), or an exception
\* of the decoder (dlmm_bin_price overflows on an arbitrary active_id)
StrPayloads == {"state", "none", "error"}

\* an account the server has a subscription for changes
StrServerNotify ==
    /\ str_pc = "reading"
    /\ StrNotifications < MaxNotifications
    /\ \E s \in DOMAIN str_server, d \in StrPayloads :
          str_inbox' = Append(str_inbox, [type |-> "notification", subscription |-> s,
                                          account |-> str_server[s], decodes |-> d = "state",
                                          raises |-> d = "error"])
    /\ UNCHANGED <<str_pc, str_running, str_request_id, str_subscriptions, str_pool_to_info,
                   str_conn, str_sent, str_pending, str_server, str_log, strOthers>>

\* async for msg in ws: await self._handle_message(msg), a confirmation
StrHandleResult ==
    /\ str_pc = "reading" /\ str_running /\ str_inbox # <<>>
    /\ Head(str_inbox).type = "result"
    /\ str_subscriptions' = record_subscription(str_subscriptions, Head(str_inbox), str_pool_to_info)
    /\ str_inbox' = Tail(str_inbox)
    /\ UNCHANGED <<str_pc, str_running, str_request_id, str_pool_to_info, str_conn, str_sent,
                   str_pending, str_server, str_log, strOthers>>

\* async for msg in ws: await self._handle_message(msg), a notification; an
\* exception of the handler is taken by except Exception of start(), which
\* leaves the connection's async with and sleeps 5 s
StrHandleNotification ==
    /\ str_pc = "reading" /\ str_running /\ str_inbox # <<>>
    /\ Head(str_inbox).type = "notification"
    /\ str_log' = Append(str_log, [conn |-> str_conn, subscription |-> Head(str_inbox).subscription,
                                   account |-> Head(str_inbox).account,
                                   decodes |-> Head(str_inbox).decodes,
                                   raised |-> handler_raises(str_subscriptions, Head(str_inbox)),
                                   callback |-> notify(str_subscriptions, Head(str_inbox))])
    /\ IF handler_raises(str_subscriptions, Head(str_inbox))
       THEN /\ str_pc' = "backoff"
            /\ str_pending' = <<>> /\ str_server' = EmptyMap /\ str_inbox' = <<>>
       ELSE /\ str_inbox' = Tail(str_inbox)
            /\ UNCHANGED <<str_pc, str_pending, str_server>>
    /\ UNCHANGED <<str_running, str_request_id, str_subscriptions, str_pool_to_info,
                   str_conn, str_sent, strOthers>>

\* the connection closes or errors: ConnectionClosed or another exception
\* leaves the async for, the streamer sleeps 2 s or 5 s
StrClose ==
    /\ str_pc = "reading" /\ str_running
    /\ str_conn < MaxConnections
    /\ str_pc' = "backoff"
    /\ str_pending' = <<>> /\ str_server' = EmptyMap /\ str_inbox' = <<>>
    /\ UNCHANGED <<str_running, str_request_id, str_subscriptions, str_pool_to_info, str_conn,
                   str_sent, str_log, strOthers>>

\* the sleep is over: back to the top of while self._running
StrBackoffOver ==
    /\ str_pc = "backoff"
    /\ str_pc' = IF str_running THEN "connect" ELSE "returned"
    /\ UNCHANGED <<str_running, str_request_id, str_subscriptions, str_pool_to_info, str_conn,
                   str_sent, str_pending, str_server, str_inbox, str_log, strOthers>>

\* stop(): _running = False and the socket is closed, start() returns
StrStop ==
    /\ str_running /\ str_pc \in {"connect", "reading", "backoff"}
    /\ str_running' = FALSE
    /\ str_pc' = IF str_pc = "backoff" THEN "backoff" ELSE "returned"
    /\ str_pending' = <<>> /\ str_server' = EmptyMap /\ str_inbox' = <<>>
    /\ UNCHANGED <<str_request_id, str_subscriptions, str_pool_to_info, str_conn, str_sent,
                   str_log, strOthers>>

NextStreamer ==
    \/ StrStart \/ StrConnect \/ StrServerConfirm \/ StrServerNotify
    \/ StrHandleResult \/ StrHandleNotification \/ StrClose \/ StrBackoffOver \/ StrStop

InitStreamer == StrIdle /\ RegInit /\ TriIdle /\ XdexIdle /\ BldIdle /\ EngIdle /\ FeeIdle /\ AltIdle /\ WstIdle /\ QpIdle /\ LifeIdle /\ CfIdle

SpecStreamer == InitStreamer /\ [][NextStreamer]_vars

\* C17: after a close or an error the streamer comes back reading on a new
\* connection only with one accountSubscribe per tracked pool sent on it, in
\* the order of the pools, and on every connection, the first and the later
\* ones, a notification of a tracked pool whose data decodes reaches the
\* callback.
C17_StreamerReconnection ==
    /\ str_pc = "reading" =>
          /\ Len(str_sent) = Len(str_pool_to_info)
          /\ \A j \in DOMAIN str_sent : str_sent[j].address = str_pool_to_info[j]
    /\ \A i \in DOMAIN str_log : str_log[i].decodes => str_log[i].callback # <<>>

\* on the second connection a notification that decodes was handled and the
\* callback was not called
C17_Witness ==
    \E i \in DOMAIN str_log :
       /\ str_log[i].conn = 2 /\ str_log[i].decodes
       /\ str_log[i].callback = <<>>

\* C18: while a connection is up every recorded subscription id is one the
\* server confirmed on this connection, for the recorded address, and every
\* callback gets the address of the account that changed.
C18_SubscriptionBookkeeping ==
    /\ str_pc = "reading" =>
          \A s \in DOMAIN str_subscriptions :
             s \in DOMAIN str_server /\ str_server[s] = str_subscriptions[s]
    /\ \A i \in DOMAIN str_log :
          str_log[i].callback # <<>> => str_log[i].callback[1] = str_log[i].account

\* after a reconnect the server reused a subscription id for another pool and
\* the callback was called with the address recorded on the first connection
C18_Witness ==
    \E i \in DOMAIN str_log :
       /\ str_log[i].conn = 2 /\ str_log[i].callback # <<>>
       /\ str_log[i].callback[1] # str_log[i].account

\* C33: a notification whose payload does not decode is skipped: the
\* callback is not called for it and handling it does not end the
\* connection.
C33_DecodeFailureIsolation ==
    \A i \in DOMAIN str_log :
       ~str_log[i].decodes => str_log[i].callback = <<>> /\ ~str_log[i].raised

\* on the first connection a notification of a subscribed pool made the
\* decoder raise; the connection is gone and the streamer is in its backoff
C33_Witness ==
    /\ str_log # <<>> /\ str_conn = 1 /\ str_running
    /\ str_log[Len(str_log)].raised /\ str_log[Len(str_log)].callback = <<>>
    /\ str_log[Len(str_log)].subscription \in DOMAIN str_subscriptions
    /\ str_pc = "backoff" /\ str_inbox = <<>>

(***************************************************************************)
(* main.py, _ws_arb_loop against a clock.  The engine model leaves the two *)
(* time tests of the worker to a boolean; here the worker runs on its own, *)
(* the scan and the aggregator validation are answers of the environment,  *)
(* and time passes wherever the worker awaits.  Times are whole seconds.   *)
(* The log has one entry per scan ("scan"), per discarded update           *)
(* ("discard") and per execution ("exec", with the times it started and    *)
(* finished, finish = -1 while it runs).                                   *)
(***************************************************************************)
\* time.time() when the worker starts, and how long a run is followed
WsEpoch == 100
MaxWsSeconds == 11
MaxWsDequeues == 3

WsPairs == {"SOL/USDC", "JUP/USDC"}

scan_too_recent_1s(scans, pair_name, now) ==
    pair_name \in DOMAIN scans /\ now - scans[pair_name] < 1

\* if pair_name in recent_scans and now - recent_scans[pair_name] < 2.0: continue
scan_too_recent(scans, pair_name, now) ==
    pair_name \in DOMAIN scans /\ now - scans[pair_name] < 2

\* last_exec = recent_executions.get(pair_name, 0); if now - last_exec < 10.0: continue
exec_too_recent(executions, pair_name, now) ==
    now - (IF pair_name \in DOMAIN executions THEN executions[pair_name] ELSE 0) < 10

WstDequeues == Cardinality({i \in DOMAIN wst_log : wst_log[i].ev \in {"scan", "discard"}})

\* start() creates the worker task
WstStart ==
    /\ wst_pc = "off"
    /\ wst_pc' = "get"
    /\ wst_clock' = WsEpoch
    /\ \E d \in BOOLEAN : wst_dry_run' = d
    /\ UNCHANGED <<wst_pair, wst_now, wst_recent_scans, wst_recent_executions, wst_log, wstOthers>>

\* a second passes while the worker waits for the queue, the scan, the
\* aggregator or the execution
WstTick ==
    /\ wst_pc # "off"
    /\ wst_clock < WsEpoch + MaxWsSeconds
    /\ wst_clock' = wst_clock + 1
    /\ UNCHANGED <<wst_dry_run, wst_pc, wst_pair, wst_now, wst_recent_scans,
                   wst_recent_executions, wst_log, wstOthers>>

\* an update leaves the queue: pair lookup, the 2 s test, the scan is started
WstDequeue ==
    /\ wst_pc = "get"
    /\ WstDequeues < MaxWsDequeues
    /\ \E pair_name \in WsPairs :
          /\ wst_pair' = pair_name
          /\ wst_now' = wst_clock
          /\ IF scan_too_recent(wst_recent_scans, pair_name, wst_clock)
             THEN /\ wst_log' = Append(wst_log, [ev |-> "discard", pair |-> pair_name,
                                                 start |-> wst_clock, finish |-> wst_clock])
                  /\ UNCHANGED <<wst_pc, wst_recent_scans>>
             ELSE /\ wst_recent_scans' = MapPut(wst_recent_scans, pair_name, wst_clock)
                  /\ wst_log' = Append(wst_log, [ev |-> "scan", pair |-> pair_name,
                                                 start |-> wst_clock, finish |-> -1])
                  /\ wst_pc' = "scan"
    /\ UNCHANGED <<wst_dry_run, wst_clock, wst_recent_executions, wstOthers>>

\* scan_pair returns: no opportunity, or one the gate refuses (same family,
\* estimated profit under 5 bps, executed less than 10 s before now), or one
\* that goes on to the aggregator validation
WstScanned ==
    /\ wst_pc = "scan"
    /\ \E passes \in BOOLEAN :
          wst_pc' = IF passes /\ ~exec_too_recent(wst_recent_executions, wst_pair, wst_now)
                    THEN "validate" ELSE "get"
    /\ UNCHANGED <<wst_dry_run, wst_clock, wst_pair, wst_now, wst_recent_scans,
                   wst_recent_executions, wst_log, wstOthers>>

\* the two validation quotes are in: a stale or failed validation goes back
\* to the queue, a confirmed one sets recent_executions[pair_name] = now and
\* executes, a dry run by logging
WstValidated ==
    /\ wst_pc = "validate"
    /\ \E confirmed \in BOOLEAN :
          IF ~confirmed
          THEN wst_pc' = "get" /\ UNCHANGED <<wst_recent_executions, wst_log>>
          ELSE /\ wst_recent_executions' = MapPut(wst_recent_executions, wst_pair, wst_now)
               /\ wst_log' = Append(wst_log, [ev |-> "exec", pair |-> wst_pair, start |-> wst_clock,
                                              finish |-> IF wst_dry_run THEN wst_clock ELSE -1])
               /\ wst_pc' = IF wst_dry_run THEN "get" ELSE "execute"
    /\ UNCHANGED <<wst_dry_run, wst_clock, wst_pair, wst_now, wst_recent_scans, wstOthers>>

\* await self._execute_cross_dex(opp) returns
WstExecuted ==
    /\ wst_pc = "execute"
    /\ wst_log' = [wst_log EXCEPT ![Len(wst_log)].finish = wst_clock]
    /\ wst_pc' = "get"
    /\ UNCHANGED <<wst_dry_run, wst_clock, wst_pair, wst_now, wst_recent_scans,
                   wst_recent_executions, wstOthers>>

NextWsClock == WstStart \/ WstTick \/ WstDequeue \/ WstScanned \/ WstValidated \/ WstExecuted

InitWsClock == WstIdle /\ RegInit /\ TriIdle /\ XdexIdle /\ BldIdle /\ EngIdle /\ FeeIdle /\ AltIdle /\ StrIdle /\ QpIdle /\ LifeIdle /\ CfIdle

SpecWsClock == InitWsClock /\ [][NextWsClock]_vars

\* the log entries of one kind for one pair before entry j
Earlier(j, ev, pair) == {i \in 1..(j - 1) : wst_log[i].ev = ev /\ wst_log[i].pair = pair}

\* C19: two reactive scans of a pair start at least 2 s apart, and an update
\* is discarded without a scan exactly when it is dequeued less than 2 s
\* after the start of the last reactive scan of its pair.
C19_ScanDeduplication ==
    \A j \in DOMAIN wst_log :
       /\ wst_log[j].ev = "scan" =>
             \A i \in Earlier(j, "scan", wst_log[j].pair) :
                wst_log[j].start - wst_log[i].start >= 2
       /\ wst_log[j].ev = "discard" =>
             \E i \in Earlier(j, "scan", wst_log[j].pair) :
                wst_log[j].start - wst_log[i].start < 2

\* a pair was scanned, an update one second later was discarded, one two
\* seconds later was scanned
C19_Witness ==
    /\ Len(wst_log) >= 3
    /\ wst_log[1] = [ev |-> "scan", pair |-> "SOL/USDC", start |-> WsEpoch, finish |-> -1]
    /\ wst_log[2].ev = "discard" /\ wst_log[2].pair = "SOL/USDC" /\ wst_log[2].start = WsEpoch + 1
    /\ wst_log[3].ev = "scan" /\ wst_log[3].pair = "SOL/USDC" /\ wst_log[3].start = WsEpoch + 2

\* C20: a reactive execution of a pair starts at least 10 s after the
\* previous reactive execution of that pair, dry run or not, has finished.
C20_ExecutionCooldown ==
    \A j \in DOMAIN wst_log :
       wst_log[j].ev = "exec" =>
          \A i \in Earlier(j, "exec", wst_log[j].pair) :
             wst_log[i].finish # -1 /\ wst_log[j].start - wst_log[i].finish >= 10

\* a live execution that took three seconds, and the next execution of the
\* pair started less than 10 s after it finished
C20_Witness ==
    \E i, j \in DOMAIN wst_log :
       /\ i < j /\ wst_log[i].ev = "exec" /\ wst_log[j].ev = "exec"
       /\ wst_log[i].pair = wst_log[j].pair
       /\ ~wst_dry_run
       /\ wst_log[i].finish >= wst_log[i].start + 3
       /\ wst_log[j].start - wst_log[i].finish < 10

(***************************************************************************)
(* QuoteProvider.get_quote against a clock.  The callers (the connectivity *)
(* test of start() and the two legs of PairScanner._scan_direction) await  *)
(* each call before the next, so one call is in progress at a time.        *)
(***************************************************************************)
RAYDIUM_COOLDOWN_SEC == 60
\* time.monotonic() when the provider is built: positive, as the clock counts
\* from an earlier point (boot), and at most MaxQuoteSeconds in a run
QuoteEpoch == 1
MaxQuoteSeconds == 125
MaxQuoteCalls == 3
QuoteTicks == {1, 59}

\* what the primary answers: a quote, an HTTP status with or without the
\* protection service's code 1015 in its text, or no answer (status 0)
RaydiumAnswers ==
    {[status |-> 200, marker |-> FALSE], [status |-> 429, marker |-> FALSE],
     [status |-> 403, marker |-> FALSE], [status |-> 503, marker |-> TRUE],
     [status |-> 500, marker |-> FALSE], [status |-> 0, marker |-> FALSE]}

JupiterAnswers == {"ok", "raise"}

\* "429" in msg or "1015" in msg or "403" in msg, msg being
\* "Raydium {status}: {text}"
is_rate_limit(a) == a.status \in {429, 403} \/ a.marker

\* _raydium_cooldown_until after a rate-limited answer handled at now
cooldown_none(now) == now
cooldown_from(now) == now + RAYDIUM_COOLDOWN_SEC

\* if self.use_raydium and time.monotonic() > self._raydium_cooldown_until
primary_first(use_raydium, now, cooldown_until) == use_raydium /\ now > cooldown_until

\* a throttle of the primary: status 403 or 429, or the protection marker
ThrottleAnswer(a) == a.status \in {403, 429} \/ a.marker

LastCall == qp_calls[Len(qp_calls)]
SetLastCall(c) == [qp_calls EXCEPT ![Len(qp_calls)] = c]

\* time passes
QpTick ==
    /\ \E d \in QuoteTicks : qp_clock + d <= MaxQuoteSeconds /\ qp_clock' = qp_clock + d
    /\ UNCHANGED <<qp_use_raydium, qp_cooldown_until, qp_pc, qp_throttled_at, qp_calls, qpOthers>>

\* get_quote is called: the request goes to the primary (after the pacing
\* sleep of _raydium_quote) or straight to the secondary
QpGetQuote ==
    /\ qp_pc = "idle" /\ Len(qp_calls) < MaxQuoteCalls
    /\ LET first == IF primary_first(qp_use_raydium, qp_clock, qp_cooldown_until)
                    THEN "raydium" ELSE "jupiter"
       IN  /\ qp_pc' = first
           /\ qp_calls' = Append(qp_calls, [first |-> first, throttled |-> FALSE,
                                            answered_by |-> "none"])
    /\ UNCHANGED <<qp_use_raydium, qp_clock, qp_cooldown_until, qp_throttled_at, qpOthers>>

\* the primary answers: the quote is returned, or the exception is taken and
\* the call goes on to _jupiter_quote
QpRaydiumAnswers ==
    /\ qp_pc = "raydium"
    /\ \E a \in RaydiumAnswers :
          IF a.status = 200
          THEN /\ qp_pc' = "idle"
               /\ qp_calls' = SetLastCall([LastCall EXCEPT !.answered_by = "raydium"])
               /\ UNCHANGED <<qp_cooldown_until, qp_throttled_at>>
          ELSE /\ qp_pc' = "jupiter"
               /\ qp_cooldown_until' = (IF is_rate_limit(a) THEN cooldown_from(qp_clock)
                                        ELSE qp_cooldown_until)
               /\ qp_throttled_at' = (IF ThrottleAnswer(a) THEN qp_clock ELSE qp_throttled_at)
               /\ qp_calls' = SetLastCall([LastCall EXCEPT !.throttled = ThrottleAnswer(a)])
    /\ UNCHANGED <<qp_use_raydium, qp_clock, qpOthers>>

\* the secondary answers: the quote is returned or its exception leaves
\* get_quote
QpJupiterAnswers ==
    /\ qp_pc = "jupiter"
    /\ \E a \in JupiterAnswers :
          qp_calls' = SetLastCall([LastCall EXCEPT !.answered_by =
                                      IF a = "ok" THEN "jupiter" ELSE "raised"])
    /\ qp_pc' = "idle"
    /\ UNCHANGED <<qp_use_raydium, qp_clock, qp_cooldown_until, qp_throttled_at, qpOthers>>

NextQuote == QpTick \/ QpGetQuote \/ QpRaydiumAnswers \/ QpJupiterAnswers

InitQuote ==
    /\ qp_use_raydium \in BOOLEAN /\ qp_clock = QuoteEpoch /\ qp_cooldown_until = 0
    /\ qp_pc = "idle" /\ qp_throttled_at = -1 /\ qp_calls = <<>>
    /\ RegInit /\ TriIdle /\ XdexIdle /\ BldIdle /\ EngIdle
    /\ FeeIdle /\ AltIdle /\ StrIdle /\ WstIdle /\ LifeIdle /\ CfIdle

SpecQuote == InitQuote /\ [][NextQuote]_vars

\* C25: with the primary enabled, a get_quote call asks the primary first
\* unless the primary answered with a throttle within the last 60 s, in which
\* case no request goes to the primary; a throttle answer sets a cooldown of
\* at least 60 s and hands the same call to the secondary; a call made more
\* than 60 s after the throttle asks the primary again; and the primary is
\* never asked other than first.
C25_QuoteFailover ==
    [][/\ (qp_use_raydium /\ qp_pc = "idle" /\ qp_pc' # "idle") =>
             ((qp_pc' = "raydium") <=>
                 (qp_throttled_at = -1 \/ qp_clock > qp_throttled_at + 60))
       /\ (qp_pc = "raydium" /\ qp_pc' # "raydium" /\ qp_calls'[Len(qp_calls')].throttled) =>
             /\ qp_pc' = "jupiter"
             /\ qp_cooldown_until' >= qp_clock + 60
       /\ qp_pc' = "raydium" => qp_pc = "idle" \/ qp_pc = "raydium"]_vars

\* the first call was throttled by the primary and answered by the
\* secondary, the second went straight to the secondary during the
\* cooldown, and the third, after the cooldown, is asking the primary
C25_Witness ==
    /\ Len(qp_calls) = 3 /\ qp_pc = "raydium"
    /\ qp_calls[1].first = "raydium" /\ qp_calls[1].throttled
    /\ qp_calls[1].answered_by = "jupiter"
    /\ qp_calls[2].first = "jupiter" /\ qp_calls[2].answered_by = "jupiter"
    /\ qp_calls[3].first = "raydium"
    /\ qp_clock > qp_throttled_at + 60

(***************************************************************************)
(* ArbitrageEngine.start() from its first line to its return, and the      *)
(* resources it opens: the RPC client, the MEV client, the quote           *)
(* provider's two HTTP sessions and the streamer's WebSocket.              *)
(***************************************************************************)
LifeConfigs == [use_jito : BOOLEAN, ws_url : BOOLEAN]

\* the sessions a get_quote call opens: _get_cf_session when the primary is
\* asked, _get_httpx_client when the secondary is
QuoteSessions == {{"quote_cf"}, {"quote_httpx"}, {"quote_cf", "quote_httpx"}}

\* start() is called; load_keypair(config.wallet_path)
LifeLoadWallet ==
    /\ life_pc = "new"
    /\ \E c \in LifeConfigs, ok \in BOOLEAN :
          /\ life_cfg' = c
          /\ IF ok THEN life_pc' = "rpc" /\ life_exit' = ""
             ELSE life_pc' = "raised" /\ life_exit' = "wallet"
    /\ UNCHANGED <<life_open, lifeOthers>>

\* self.rpc = AsyncClient(...); await self.rpc.get_balance(self.borrower_pk)
LifeConnect ==
    /\ life_pc = "rpc"
    /\ \E ok \in BOOLEAN :
          /\ life_open' = life_open \cup {"rpc"}
          /\ life_cfg' = life_cfg
          /\ IF ok THEN life_pc' = "pool_state" /\ life_exit' = life_exit
             ELSE life_pc' = "raised" /\ life_exit' = "balance"
    /\ UNCHANGED lifeOthers

\* the lending pool's state is read inside try ... except; then the MEV
\* client is built when config.use_jito is set
LifePoolStateAndJito ==
    /\ life_pc = "pool_state"
    /\ life_open' = (IF life_cfg.use_jito THEN life_open \cup {"jito"} ELSE life_open)
    /\ life_pc' = "discover"
    /\ UNCHANGED <<life_cfg, life_exit, lifeOthers>>

\* await self._discover_pools(): every pair of every phase in its own try;
\* then the two scanners are built
LifeDiscover ==
    /\ life_pc = "discover"
    /\ life_pc' = "test_quote"
    /\ UNCHANGED <<life_cfg, life_open, life_exit, lifeOthers>>

\* await self._test_raydium(): one get_quote inside try ... except
LifeTestQuote ==
    /\ life_pc = "test_quote"
    /\ \E opened \in QuoteSessions : life_open' = life_open \cup opened
    /\ life_pc' = "scan_loop"
    /\ UNCHANGED <<life_cfg, life_exit, lifeOthers>>

\* while _scan_loop runs the streamer task connects its WebSocket
LifeStreamerConnects ==
    /\ life_pc = "scan_loop" /\ life_cfg.ws_url /\ "ws" \notin life_open
    /\ life_open' = life_open \cup {"ws"}
    /\ UNCHANGED <<life_cfg, life_pc, life_exit, lifeOthers>>

\* while _scan_loop runs the aggregator scanner asks for quotes
LifeScanQuotes ==
    /\ life_pc = "scan_loop"
    /\ \E opened \in QuoteSessions : ~(opened \subseteq life_open) /\ life_open' = life_open \cup opened
    /\ UNCHANGED <<life_cfg, life_pc, life_exit, lifeOthers>>

\* the await of _scan_loop ends: running was cleared by stop() or by the
\* kill switch, or an exception left the loop
LifeScanLoopEnds ==
    /\ life_pc = "scan_loop"
    /\ \E how \in {"stop", "kill_switch", "exception"} : life_exit' = how
    /\ life_pc' = "finally"
    /\ UNCHANGED <<life_cfg, life_open, lifeOthers>>

\* what the finally block closes: pool_streamer.stop() closes the socket,
\* quote_provider.close() the two sessions, then jito.close(), rpc.close()
teardown(open) == open \ {"ws", "quote_cf", "quote_httpx", "jito", "rpc"}

\* finally: the tasks are cancelled and the resources closed; an exception
\* of the loop is raised again after it
LifeTeardown ==
    /\ life_pc = "finally"
    /\ life_open' = teardown(life_open)
    /\ life_pc' = (IF life_exit = "exception" THEN "raised" ELSE "returned")
    /\ UNCHANGED <<life_cfg, life_exit, lifeOthers>>

NextLife ==
    \/ LifeLoadWallet \/ LifeConnect \/ LifePoolStateAndJito \/ LifeDiscover \/ LifeTestQuote
    \/ LifeStreamerConnects \/ LifeScanQuotes \/ LifeScanLoopEnds \/ LifeTeardown

InitLife ==
    /\ LifeIdle
    /\ RegInit /\ TriIdle /\ XdexIdle /\ BldIdle /\ EngIdle
    /\ FeeIdle /\ AltIdle /\ StrIdle /\ WstIdle /\ QpIdle /\ CfIdle

SpecLife == InitLife /\ [][NextLife]_vars

\* C24: when start() has returned or raised, at whatever step, none of the
\* resources it opened is still open.
C24_GuaranteedTeardown ==
    life_pc \in {"returned", "raised"} => life_open = {}

\* get_balance raised right after the RPC client was created: start() is
\* over and the RPC client is open
C24_Witness ==
    /\ life_pc = "raised" /\ life_exit = "balance"
    /\ life_open = {"rpc"}

(***************************************************************************)
(* ArbitrageEngine._confirm_transaction(sig, last_valid_block_height): one *)
(* call, an await per step.  A status poll answers with an exception, with *)
(* no status for the signature, or with a status (err set or not, and a    *)
(* confirmation status); the block-height request answers with a height    *)
(* up to last_valid_block_height, one above it, or an exception.           *)
(***************************************************************************)
\* max_polls = 30
MAX_POLLS == 30

StatusReport(answer, err, confirmation_status) ==
    [answer |-> answer, err |-> err, confirmation_status |-> confirmation_status]

NoReport == StatusReport("", FALSE, "")

\* what await rpc.get_signature_statuses([signature]) may bring
StatusReports ==
    {StatusReport("raise", FALSE, ""), StatusReport("none", FALSE, "")}
        \cup {StatusReport("status", e, c) :
                e \in BOOLEAN, c \in {"", "processed", "confirmed", "finalized"}}

\* what await rpc.get_block_height() may bring, against last_valid_block_height
HeightReports == {"valid", "expired", "raise"}

\* if statuses and statuses[0]: if status.err: return False
status_failed(r) == r.answer = "status" /\ r.err

\* if status.confirmation_status and str(...) in ("confirmed", "finalized"): return True
status_confirmed(r) ==
    r.answer = "status" /\ ~r.err /\ r.confirmation_status \in {"confirmed", "finalized"}

\* a loop that asks again whatever the number of polls made
range_unbounded(polls) == TRUE

\* for _ in range(max_polls)
range_max_polls(polls) == polls < MAX_POLLS

CfReturns(result) == cf_pc' = "done" /\ cf_result' = result

\* the call: Signature.from_string(sig) raises on a string that is no signature
CfCall ==
    /\ cf_pc = "idle"
    /\ \E parses \in BOOLEAN :
          IF parses THEN cf_pc' = "loop" /\ cf_result' = "" ELSE CfReturns("raise")
    /\ UNCHANGED <<cf_polls, cf_status, cf_height, cfOthers>>

\* the head of the for loop, and "Confirmation timed out" after it
CfLoop ==
    /\ cf_pc = "loop"
    /\ IF range_max_polls(cf_polls) THEN cf_pc' = "status" /\ cf_result' = cf_result
       ELSE CfReturns("false")
    /\ UNCHANGED <<cf_polls, cf_status, cf_height, cfOthers>>

\* await rpc.get_signature_statuses([signature]) and the tests on its answer
CfStatus ==
    /\ cf_pc = "status"
    /\ cf_polls' = cf_polls + 1
    /\ \E r \in StatusReports :
          /\ cf_status' = r
          /\ IF r.answer = "raise" THEN cf_pc' = "sleep" /\ cf_result' = cf_result
             ELSE IF status_failed(r) THEN CfReturns("false")
             ELSE IF status_confirmed(r) THEN CfReturns("true")
             ELSE cf_pc' = "height" /\ cf_result' = cf_result
    /\ UNCHANGED <<cf_height, cfOthers>>

\* await rpc.get_block_height() and the test against last_valid_block_height
CfHeight ==
    /\ cf_pc = "height"
    /\ \E h \in HeightReports :
          /\ cf_height' = h
          /\ IF h = "expired" THEN CfReturns("false")
             ELSE cf_pc' = "sleep" /\ cf_result' = cf_result
    /\ UNCHANGED <<cf_polls, cf_status, cfOthers>>

\* await asyncio.sleep(poll_interval)
CfSleep ==
    /\ cf_pc = "sleep"
    /\ cf_pc' = "loop"
    /\ UNCHANGED <<cf_polls, cf_status, cf_height, cf_result, cfOthers>>

NextConfirm == CfCall \/ CfLoop \/ CfStatus \/ CfHeight \/ CfSleep

InitConfirm ==
    /\ cf_pc = "idle" /\ cf_polls = 0 /\ cf_status = NoReport /\ cf_height = ""
    /\ cf_result = ""
    /\ RegInit /\ TriIdle /\ XdexIdle /\ BldIdle /\ EngIdle
    /\ FeeIdle /\ AltIdle /\ StrIdle /\ WstIdle /\ QpIdle /\ LifeIdle

SpecConfirm == InitConfirm /\ [][NextConfirm]_vars

\* every await of the call returns or raises in the end
LiveConfirm == SpecConfirm /\ WF_vars(NextConfirm)

\* C31: _confirm_transaction ends, after at most 30 status polls; it returns
\* True only when the poll it ended on reported the signature with no error
\* and confirmation status confirmed or finalized; a poll that reports an
\* on-chain error, or a block height above last_valid_block_height, makes it
\* return False at once; a poll whose request raises is followed by the
\* sleep and the next round, not by a return.
C31_ConfirmationPolling ==
    /\ <>(cf_pc = "done")
    /\ [](cf_polls <= MAX_POLLS)
    /\ [](cf_result = "true" =>
             /\ cf_status.answer = "status" /\ ~cf_status.err
             /\ cf_status.confirmation_status \in {"confirmed", "finalized"})
    /\ [][/\ (cf_polls' = cf_polls + 1 /\ cf_status'.answer = "status" /\ cf_status'.err)
             => cf_pc' = "done" /\ cf_result' = "false"
          /\ (cf_pc = "height" /\ cf_height' = "expired")
             => cf_pc' = "done" /\ cf_result' = "false"
          /\ \/ cf_polls' = cf_polls + 1 /\ cf_status'.answer = "raise"
             \/ cf_pc = "height" /\ cf_pc' # "height" /\ cf_height' = "raise"
             => cf_pc' = "sleep" /\ cf_result' = ""
          /\ (cf_pc' = "done" /\ cf_result' = "false" /\ cf_pc = "loop")
             => cf_polls = MAX_POLLS]_vars

\* the call returned False after its thirtieth poll, whose status request
\* raised after the block-height request of an earlier round had raised
C31_Witness ==
    /\ cf_pc = "done" /\ cf_result = "false"
    /\ cf_polls = MAX_POLLS
    /\ cf_status.answer = "raise" /\ cf_height = "raise"

(***************************************************************************)
(* The engine after the preamble of start(): wallet, RPC client, lending   *)
(* pool state read, pools discovered, scanners built with the pool's fee.  *)
(***************************************************************************)
MaxCycles == 5
MaxOpps == 2
MaxWsUpdates == 2

\* the configurations and lending-pool fees the engine is started with
EngineConfigs ==
    {[cfg |-> BotConfig(<<<<"SOL", "USDC">>, <<"SOLUSDC">>>>, FALSE, FALSE, 2, FALSE),
      fee_bps |-> 9],
     [cfg |-> BotConfig(<<<<"SOL", "USDC">>, <<"SOLUSDC">>>>, FALSE, TRUE, 1, FALSE), fee_bps |-> 30],
     [cfg |-> BotConfig(<<<<"SOL", "USDC">>>>, TRUE, TRUE, 1, TRUE), fee_bps |-> 9],
     [cfg |-> BotConfig(<<<<"SOL", "USDC">>, <<"SOLUSDC">>>>, FALSE, FALSE, 1, TRUE), fee_bps |-> 30]}

\* what fetch_pool_states answers for a pair: positions in the pair's pools
EngineSnapIdx(pair) == IF pair = <<"SOL", "USDC">> THEN {{1, 3}, {1, 2}, {1}} ELSE {{1, 3}}

\* what the two get_quote calls of the aggregator scanner answer
AggQuotes == {[ok |-> FALSE, gain |-> 0], [ok |-> TRUE, gain |-> 400000], [ok |-> TRUE, gain |-> 900000]}

\* the pool states build_graph fetches
TriSnaps == {TriUniverse, <<>>}

\* the aggregator's answers to one build
EngineBuildEnvs(kind, borrow_amount) ==
    {[quotes |-> [i \in 1..LegsOf(kind) |-> q],
      out |-> [i \in 1..LegsOf(kind) |-> IF i = LegsOf(kind) THEN f ELSE borrow_amount],
      swap_ok |-> TRUE, swaps |-> [i \in 1..LegsOf(kind) |-> [setup |-> 1, cleanup |-> TRUE]],
      tx_bytes |-> b] :
        q \in {"ok", "filtered_fails"},
        f \in {borrow_amount + builder_flash_fee(borrow_amount), borrow_amount + 400000},
        b \in {MAX_TX_BYTES, MAX_TX_BYTES + 1}}

SimOutcomes == {"ok", "fail", "raise"}
SendOutcomes == {"ok", "raise"}
\* _confirm_transaction: confirmed or finalized, an on-chain error, the block
\* height beyond last_valid_block_height, 30 polls without an answer, or
\* Signature.from_string raising
ConfirmOutcomes == {"true", "err", "expired", "timeout", "raise"}

\* the value _confirm_transaction returns
confirm_transaction(o) == o = "true"

\* the account updates the streamer delivers
WsUpdates ==
    {ClmmState("x1", 3, 1, 100000000, 5), ClmmState("x1", 3, 1, 100100000, 5), V4State("x6", 3, 1)}

\* the answers to the reactive worker's two validation quotes
WsValidations(borrow_amount) ==
    {[ok |-> FALSE, final_out |-> 0],
     [ok |-> TRUE, final_out |-> borrow_amount + builder_flash_fee(borrow_amount)],
     [ok |-> TRUE, final_out |-> borrow_amount + 400000]}

\* asyncio.Queue(maxsize=100)
WS_QUEUE_MAXSIZE == 100

IsPriority(pair) == pair \in PRIORITY_PAIRS

\* start() up to the call of _scan_loop
EngStart(e) ==
    /\ config = e.cfg
    /\ scanner = PairScanner(e.cfg, e.fee_bps)
    /\ xdex_cfg = [pool_fee_bps |-> e.fee_bps, min_spread_bps |-> 15]
    /\ tri_cfg = [flash_fee_bps |-> e.fee_bps, min_profit_bps |-> 15]
    /\ best_spreads = <<>> /\ xdex_call = <<>> /\ xdex_raised = FALSE /\ xdex_result = <<>>
    /\ tri_states = <<>> /\ graph = <<>> /\ best_triangles = <<>> /\ tri_focus = {}
    /\ tri_opps = <<>>
    /\ running = TRUE /\ consecutive_failures = 0 /\ metrics = Metrics
    /\ agg_best = <<>> /\ tri_batch_idx = 0 /\ pool_prices = <<>> /\ ws_arb_queue = <<>>
    /\ scan_pc = "loop" /\ cycle_count = 0 /\ pairs_to_scan = <<>> /\ scan_i = 0
    /\ tri_todo = <<>>
    /\ ws_pc = (IF e.cfg.ws_url THEN "get" ELSE "off")
    /\ ws_opp = <<>> /\ recent_scans = {} /\ recent_executions = {}
    /\ exec_of = [t \in Tasks |-> 0] /\ execs = <<>>
    /\ cycle_log = <<>> /\ kill_switch = FALSE

EngInit == \E e \in EngineConfigs : EngStart(e)

\* the environment lets the scanners find at most MaxOpps opportunities
Budget(found) ==
    metrics.cross_dex_opps + metrics.opportunities_found + Len(tri_todo)
        + metrics.triangular_opps + found <= MaxOpps

\* the except branch of a scan cycle
CycleFailed ==
    /\ consecutive_failures' = consecutive_failures + 1
    /\ cycle_log' = Append(cycle_log, "exc")
    /\ IF kill_at(consecutive_failures + 1, config.max_consecutive_failures)
       THEN running' = FALSE /\ kill_switch' = TRUE /\ scan_pc' = "done"
       ELSE UNCHANGED <<running, kill_switch>> /\ scan_pc' = "loop"

\* while self.running: a new cycle starts
CycleStart ==
    /\ scan_pc = "loop" /\ running
    /\ metrics' = Inc(metrics, "scan_cycles")
    /\ cycle_count' = cycle_count + 1
    /\ LET pts == IF (cycle_count + 1) % 3 = 0 THEN config.pairs
                  ELSE SelectSeq(config.pairs, IsPriority)
       IN  pairs_to_scan' = pts /\ scan_pc' = (IF pts = <<>> THEN "tri" ELSE "pair")
    /\ scan_i' = 1
    /\ UNCHANGED <<config, scanner, running, consecutive_failures, agg_best, tri_batch_idx,
                   cycle_log, kill_switch, tri_todo, wsVars, execVars, triVars, xdexVars, engOthers>>

ScanCycleStart == cycle_count < MaxCycles /\ CycleStart

\* while self.running: the loop ends
ScanLoopExit ==
    /\ scan_pc = "loop" /\ ~running
    /\ scan_pc' = "done"
    /\ UNCHANGED <<coreVars, cycle_count, pairs_to_scan, scan_i, tri_todo, wsVars, execVars,
                   triVars, xdexVars, engOthers>>

\* if not self.running: break
ScanBreak ==
    /\ scan_pc = "pair" /\ ~running
    /\ scan_pc' = "tri"
    /\ UNCHANGED <<coreVars, cycle_count, pairs_to_scan, scan_i, tri_todo, wsVars, execVars,
                   triVars, xdexVars, engOthers>>

\* Mode 1 on a pair parse_pair rejects: the exception ends the cycle
ScanPairRaises ==
    /\ scan_pc = "pair" /\ running
    /\ parse_pair_raises(pairs_to_scan[scan_i])
    /\ xdex_call' = <<[pair |-> pairs_to_scan[scan_i], default_borrow |-> config.borrow_amount,
                       states |-> <<>>]>>
    /\ xdex_raised' = TRUE /\ xdex_result' = <<>>
    /\ CycleFailed
    /\ UNCHANGED <<config, scanner, metrics, agg_best, tri_batch_idx, cycle_count, pairs_to_scan,
                   scan_i, tri_todo, wsVars, execVars, triVars, xdex_cfg, best_spreads, engOthers>>

\* Mode 1: cross_dex_scanner.scan_pair, the gate, dry run or _execute_cross_dex
ScanPairCrossDex ==
    /\ scan_pc = "pair" /\ running
    /\ ~parse_pair_raises(pairs_to_scan[scan_i])
    /\ \E idx \in EngineSnapIdx(pairs_to_scan[scan_i]) :
       \E r \in {scan_pair(xdex_cfg, best_spreads, pairs_to_scan[scan_i], config.borrow_amount,
                             SubSeqAt(XdexUniverse(pairs_to_scan[scan_i]), idx, 1))} :
          LET pair   == pairs_to_scan[scan_i]
              states == SubSeqAt(XdexUniverse(pair), idx, 1)
              hit    == r.result # <<>>
              go     == hit /\ scan_gate(r.result[1]) /\ ~is_dry_run(config)
          IN  /\ hit => Budget(1)
              /\ xdex_call' = <<[pair |-> pair, default_borrow |-> config.borrow_amount,
                                 states |-> states]>>
              /\ xdex_raised' = FALSE /\ xdex_result' = r.result /\ best_spreads' = r.best
              /\ metrics' = (IF hit THEN Inc(metrics, "cross_dex_opps") ELSE metrics)
              /\ IF go
                 THEN /\ execs' = Append(execs, execute_cross_dex(config, "scan", r.result[1], "agg"))
                      /\ exec_of' = [exec_of EXCEPT !["scan"] = Len(execs) + 1]
                      /\ scan_pc' = "exec"
                 ELSE /\ UNCHANGED execVars
                      /\ scan_pc' = "agg"
    /\ UNCHANGED <<config, scanner, running, consecutive_failures, agg_best, tri_batch_idx,
                   cycle_log, kill_switch, cycle_count, pairs_to_scan, scan_i, tri_todo, wsVars,
                   triVars, xdex_cfg, engOthers>>

\* Mode 2: scanner.scan_pair, dry run or _execute; then the next pair
ScanAggregator ==
    /\ scan_pc = "agg"
    /\ \E q \in AggQuotes :
       \E r \in {pair_scan(scanner, agg_best, pairs_to_scan[scan_i], config.borrow_amount, q)} :
          LET hit  == r.result # <<>>
              go   == hit /\ ~is_dry_run(config)
              nxt  == IF scan_i + 1 > Len(pairs_to_scan) THEN "tri" ELSE "pair"
          IN  /\ hit => Budget(1)
              /\ agg_best' = r.best
              /\ metrics' = (IF hit THEN Inc(metrics, "opportunities_found") ELSE metrics)
              /\ IF go
                 THEN /\ execs' = Append(execs, execute_arb(config, "scan", r.result[1], nxt))
                      /\ exec_of' = [exec_of EXCEPT !["scan"] = Len(execs) + 1]
                      /\ scan_pc' = "exec"
                 ELSE /\ UNCHANGED execVars
                      /\ scan_pc' = nxt
    /\ scan_i' = scan_i + 1
    /\ UNCHANGED <<config, scanner, running, consecutive_failures, tri_batch_idx, cycle_log,
                   kill_switch, cycle_count, pairs_to_scan, tri_todo, wsVars, triVars, xdexVars,
                   engOthers>>

\* Mode 3 on every fifth cycle: build_graph, the rotating batch, scan_triangles
ScanTriangular ==
    /\ scan_pc = "tri" /\ cycle_count % 5 = 0
    /\ \E states \in TriSnaps :
       \E g \in {build_graph(states)} :
       \E r \in {scan_result(g, tri_cfg, best_triangles, config.borrow_amount,
                               batch_mints(tri_batch_idx))} :
          LET focus == batch_mints(tri_batch_idx)
          IN  /\ Budget(Len(r.opps))
              /\ tri_states' = states /\ graph' = g /\ tri_focus' = focus
              /\ tri_opps' = r.opps /\ best_triangles' = r.best
              /\ tri_todo' = r.opps
    /\ tri_batch_idx' = tri_batch_idx + 1
    /\ scan_pc' = "tri_loop"
    /\ UNCHANGED <<config, scanner, running, consecutive_failures, metrics, agg_best, cycle_log,
                   kill_switch, cycle_count, pairs_to_scan, scan_i, wsVars, execVars, tri_cfg,
                   xdexVars, engOthers>>

\* for tri in tri_opps: dry run or _execute_triangular
ScanTriangleNext ==
    /\ scan_pc = "tri_loop" /\ tri_todo # <<>>
    /\ metrics' = Inc(metrics, "triangular_opps")
    /\ tri_todo' = Tail(tri_todo)
    /\ IF is_dry_run(config)
       THEN UNCHANGED <<execVars, scan_pc>>
       ELSE /\ execs' = Append(execs, execute_triangular(config, "scan", Head(tri_todo), "tri_loop"))
            /\ exec_of' = [exec_of EXCEPT !["scan"] = Len(execs) + 1]
            /\ scan_pc' = "exec"
    /\ UNCHANGED <<config, scanner, running, consecutive_failures, agg_best, tri_batch_idx,
                   cycle_log, kill_switch, cycle_count, pairs_to_scan, scan_i, wsVars, triVars,
                   xdexVars, engOthers>>

\* the try body ran to its end: self.consecutive_failures = 0
ScanCycleOk ==
    /\ \/ scan_pc = "tri" /\ cycle_count % 5 # 0
       \/ scan_pc = "tri_loop" /\ tri_todo = <<>>
    /\ consecutive_failures' = 0
    /\ cycle_log' = Append(cycle_log, "ok")
    /\ scan_pc' = "loop"
    /\ UNCHANGED <<config, scanner, running, metrics, agg_best, tri_batch_idx, kill_switch,
                   cycle_count, pairs_to_scan, scan_i, tri_todo, wsVars, execVars, triVars,
                   xdexVars, engOthers>>

\* the reactive worker is cancelled when the scan loop has returned
TaskAlive(t) == t = "scan" \/ scan_pc # "done"

execFrame ==
    <<config, scanner, agg_best, tri_batch_idx, cycle_count, pairs_to_scan, scan_i, tri_todo,
      ws_opp, recent_scans, recent_executions, pool_prices, ws_arb_queue, triVars, xdexVars,
      engOthers>>

\* the execution of task t returns: its caller resumes
ExecReturns(t, e, m) ==
    /\ execs' = [execs EXCEPT ![exec_of[t]] = [e EXCEPT !.pc = "end"]]
    /\ exec_of' = [exec_of EXCEPT ![t] = 0]
    /\ metrics' = m
    /\ scan_pc' = (IF t = "scan" THEN e.ret ELSE scan_pc)
    /\ ws_pc' = (IF t = "ws" THEN (IF running THEN "get" ELSE "done") ELSE ws_pc)
    /\ UNCHANGED <<running, consecutive_failures, cycle_log, kill_switch, execFrame>>

\* the execution of task t goes on to its next await
ExecGoesOn(t, e, pc) ==
    /\ execs' = [execs EXCEPT ![exec_of[t]] = [e EXCEPT !.pc = pc]]
    /\ UNCHANGED <<exec_of, metrics, scan_pc, ws_pc, running, consecutive_failures, cycle_log,
                   kill_switch, execFrame>>

\* an exception leaves _execute*: in the scan task the except branch of the
\* cycle takes it, in the reactive worker the except branch of its iteration
ExecPropagates(t, e) ==
    /\ execs' = [execs EXCEPT ![exec_of[t]] = [e EXCEPT !.pc = "end"]]
    /\ exec_of' = [exec_of EXCEPT ![t] = 0]
    /\ IF t = "scan"
       THEN CycleFailed /\ UNCHANGED ws_pc
       ELSE /\ ws_pc' = (IF running THEN "get" ELSE "done")
            /\ UNCHANGED <<running, consecutive_failures, cycle_log, kill_switch, scan_pc>>
    /\ UNCHANGED <<metrics, execFrame>>

\* the awaits of _execute, _execute_cross_dex and _execute_triangular inside
\* their try ... except Exception
exec_try_build_outside(stage) == stage \in {"simulate", "send", "confirm"}
exec_try_covers(stage) == stage \in {"build", "simulate", "send", "confirm"}

\* an await of the execution of task t raises
ExecRaises(t, e) ==
    IF exec_try_covers(execs[exec_of[t]].pc)
    THEN ExecReturns(t, e, Inc(metrics, "execution_failures"))
    ELSE ExecPropagates(t, e)

\* await build_*_transaction(...): an exception counts an execution failure
ExecBuild(t) ==
    /\ exec_of[t] # 0 /\ TaskAlive(t)
    /\ execs[exec_of[t]].pc = "build"
    /\ LET e == execs[exec_of[t]]
       IN  \E env \in EngineBuildEnvs(e.kind, e.borrow_amount) :
           \E r \in {build_transaction(e.kind, [borrow_amount |-> e.borrow_amount], env,
                                        e.tip # <<>>)} :
              LET e2 == [e EXCEPT !.built = <<r>>]
              IN  IF r.raised THEN ExecRaises(t, e2) ELSE ExecGoesOn(t, e2, "simulate")

\* await simulate_transaction(rpc, tx); if not success: count it and return
ExecSimulate(t) ==
    /\ exec_of[t] # 0 /\ TaskAlive(t)
    /\ execs[exec_of[t]].pc = "simulate"
    /\ LET e == execs[exec_of[t]]
       IN  \E o \in SimOutcomes :
              LET e2 == [e EXCEPT !.sim = o]
              IN  IF o = "raise" THEN ExecRaises(t, e2)
                  ELSE IF simulation_passed(o = "ok") THEN ExecGoesOn(t, e2, "send")
                  ELSE ExecReturns(t, e2, Inc(metrics, "simulation_failures"))

\* await jito.send_transaction(tx) or await rpc.send_transaction(tx)
ExecSend(t) ==
    /\ exec_of[t] # 0 /\ TaskAlive(t)
    /\ execs[exec_of[t]].pc = "send"
    /\ LET e == execs[exec_of[t]]
       IN  \E o \in SendOutcomes :
              LET e2 == [e EXCEPT !.sent = IF config.use_jito THEN "jito" ELSE "rpc"]
              IN  IF o = "raise" THEN ExecRaises(t, e2) ELSE ExecGoesOn(t, e2, "confirm")

\* await _confirm_transaction(sig, last_valid) and the counters after it
ExecConfirm(t) ==
    /\ exec_of[t] # 0 /\ TaskAlive(t)
    /\ execs[exec_of[t]].pc = "confirm"
    /\ LET e == execs[exec_of[t]]
       IN  \E o \in ConfirmOutcomes :
              LET e2 == [e EXCEPT !.confirm = o]
              IN  IF o = "raise" THEN ExecRaises(t, e2)
                  ELSE IF confirm_transaction(o)
                  THEN ExecReturns(t, e2, [metrics EXCEPT !.successful_arbs = @ + 1,
                                                          !.total_profit = @ + e.est_profit])
                  ELSE ExecReturns(t, e2, Inc(metrics, "execution_failures"))

\* asyncio.Queue(maxsize=WS_QUEUE_MAXSIZE).put_nowait(item): QueueFull is
\* raised, and the queue left as it is, when it holds maxsize items
put_unbounded(queue, item) == [raised |-> FALSE, queue |-> Append(queue, item)]
put_nowait(queue, item) ==
    IF Len(queue) >= WS_QUEUE_MAXSIZE THEN [raised |-> TRUE, queue |-> queue]
    ELSE [raised |-> FALSE, queue |-> Append(queue, item)]

\* every update counts as a move of the price
price_moved_always(old_price, price) == TRUE

\* if old_price and old_price > 0: abs(price - old_price) / old_price * 10000 >= 5
price_moved(old_price, price) ==
    old_price > 0
    /\ DivPow10(IF price >= old_price THEN price - old_price ELSE old_price - price,
                old_price, 4) >= 5

\* _on_pool_update(state, pool_info), called by the streamer; a QueueFull of
\* put_nowait is caught and passed over
PoolUpdate(state) ==
    /\ config.ws_url /\ scan_pc # "done"
    /\    LET pool_info == PoolInfo(state.pool_address, state.dex, state.token_mint_a,
                                    state.token_mint_b)
              price     == normalize_ws_price(state)
              old_price == DictGet(pool_prices, state.pool_address, 0)
              moved     == price_moved(old_price, price)
          IN  /\ metrics' = Inc(metrics, "ws_updates")
              /\ IF state.price <= 0 \/ price <= 0
                 THEN UNCHANGED <<pool_prices, ws_arb_queue>>
                 ELSE /\ pool_prices' = DictSet(pool_prices, state.pool_address, price)
                      /\ ws_arb_queue' =
                             (IF moved THEN put_nowait(ws_arb_queue, <<pool_info, state>>).queue
                              ELSE ws_arb_queue)
    /\ UNCHANGED <<config, scanner, running, consecutive_failures, agg_best, tri_batch_idx,
                   cycle_log, kill_switch, scanVars, ws_pc, ws_opp, recent_scans,
                   recent_executions, execVars, triVars, xdexVars, engOthers>>

\* the streamer delivers an account update
OnPoolUpdate ==
    /\ metrics.ws_updates < MaxWsUpdates
    /\ \E state \in WsUpdates : PoolUpdate(state)

\* the worker takes an update: pair lookup, the 2 s dedup, the cross-venue
\* scan and the execution gate (recently tells whether the 2 s respectively
\* 10 s since the last scan or execution of the pair have not yet passed)
WsDequeue ==
    /\ ws_pc = "get" /\ scan_pc # "done"
    /\ ws_arb_queue # <<>>
    /\ ws_arb_queue' = Tail(ws_arb_queue)
    /\ \E recently \in BOOLEAN :
          LET found == find_pair_for_pool(config, Head(ws_arb_queue)[1])
              again == IF running THEN "get" ELSE "done"
          IN  IF found = <<>> \/ (found[1] \in recent_scans /\ recently)
              THEN /\ ws_pc' = again
                   /\ UNCHANGED <<recent_scans, ws_opp, metrics, xdexVars>>
              ELSE \E idx \in EngineSnapIdx(found[1]) :
                   \E r \in {scan_pair(xdex_cfg, best_spreads, found[1], config.borrow_amount,
                                        SubSeqAt(XdexUniverse(found[1]), idx, 1))} :
                      LET pair   == found[1]
                          states == SubSeqAt(XdexUniverse(pair), idx, 1)
                          hit    == r.result # <<>>
                          pass   == hit /\ ws_gate(r.result[1])
                                        /\ ~(pair \in recent_executions /\ recently)
                      IN  /\ hit => Budget(1)
                          /\ recent_scans' = recent_scans \cup {pair}
                          /\ xdex_call' = <<[pair |-> pair,
                                             default_borrow |-> config.borrow_amount,
                                             states |-> states]>>
                          /\ xdex_raised' = FALSE /\ xdex_result' = r.result
                          /\ best_spreads' = r.best
                          /\ UNCHANGED xdex_cfg
                          /\ metrics' = (IF hit THEN Inc(metrics, "cross_dex_opps") ELSE metrics)
                          /\ ws_opp' = (IF pass THEN r.result ELSE <<>>)
                          /\ ws_pc' = (IF pass THEN "validate" ELSE again)
    /\ UNCHANGED <<config, scanner, running, consecutive_failures, agg_best, tri_batch_idx,
                   cycle_log, kill_switch, scanVars, recent_executions, pool_prices, execVars,
                   triVars, engOthers>>

\* the two validation quotes, the stale check, then dry run or
\* _execute_cross_dex
WsValidate ==
    /\ ws_pc = "validate" /\ scan_pc # "done"
    /\ \E v \in WsValidations(ws_opp[1].borrow_amount) :
          LET opp   == ws_opp[1]
              again == IF running THEN "get" ELSE "done"
              live  == v.ok /\ ~ws_stale(v.final_out, opp.borrow_amount)
              go    == live /\ ~is_dry_run(config)
          IN  /\ recent_executions' = (IF live THEN recent_executions \cup {opp.pair}
                                       ELSE recent_executions)
              /\ IF go
                 THEN /\ execs' = Append(execs, execute_cross_dex(config, "ws", opp, "get"))
                      /\ exec_of' = [exec_of EXCEPT !["ws"] = Len(execs) + 1]
                      /\ ws_pc' = "exec"
                 ELSE /\ UNCHANGED execVars
                      /\ ws_pc' = again
    /\ ws_opp' = <<>>
    /\ UNCHANGED <<coreVars, scanVars, recent_scans, pool_prices, ws_arb_queue, triVars, xdexVars,
                   engOthers>>

\* the 5 s timeout of the queue, then while self.running ends the worker
WsLoopExit ==
    /\ ws_pc = "get" /\ scan_pc # "done"
    /\ ws_arb_queue = <<>> /\ ~running
    /\ ws_pc' = "done"
    /\ UNCHANGED <<coreVars, scanVars, ws_opp, recent_scans, recent_executions, pool_prices,
                   ws_arb_queue, execVars, triVars, xdexVars, engOthers>>

\* SIGINT or SIGTERM: engine.stop()
SignalStop ==
    /\ running /\ scan_pc # "done"
    /\ running' = FALSE
    /\ UNCHANGED <<config, scanner, consecutive_failures, metrics, agg_best, tri_batch_idx,
                   cycle_log, kill_switch, scanVars, wsVars, execVars, triVars, xdexVars,
                   engOthers>>

Next ==
    \/ ScanCycleStart \/ ScanLoopExit \/ ScanBreak \/ ScanPairRaises \/ ScanPairCrossDex
    \/ ScanAggregator \/ ScanTriangular \/ ScanTriangleNext \/ ScanCycleOk
    \/ \E t \in Tasks : ExecBuild(t)
    \/ \E t \in Tasks : ExecSimulate(t)
    \/ \E t \in Tasks : ExecSend(t)
    \/ \E t \in Tasks : ExecConfirm(t)
    \/ OnPoolUpdate \/ WsDequeue \/ WsValidate \/ WsLoopExit
    \/ SignalStop

Init == EngInit /\ RegInit /\ BldIdle /\ AuxIdle

Spec == Init /\ [][Next]_vars

\* an execution whose built transaction was handed to simulate_transaction
\* or to one of the two send calls
Handled(e) == e.sim # "none" \/ e.sent # "none"

(***************************************************************************)
(* C1  Stale-quote guard: on every execution path no transaction is        *)
(* simulated or submitted whose final leg's fresh quote is at most the     *)
(* principal plus ceil(principal * fee_bps / 10000), fee_bps being the     *)
(* lending pool's fee read at startup and handed to the scanners.          *)
(***************************************************************************)
C1_StaleQuoteGuard ==
    \A i \in DOMAIN execs :
        Handled(execs[i]) =>
            execs[i].built[1].tx.final_out >
                execs[i].borrow_amount + ceil_fee(execs[i].borrow_amount, scanner.pool_fee_bps)

\* a transaction that does not repay the pool's 30 bps fee has been sent
C1_Witness ==
    \E i \in DOMAIN execs :
        /\ scanner.pool_fee_bps = 30 /\ execs[i].sent # "none"
        /\ execs[i].built[1].tx.final_out = execs[i].borrow_amount + 400000
        /\ execs[i].built[1].tx.final_out <=
               execs[i].borrow_amount + ceil_fee(execs[i].borrow_amount, scanner.pool_fee_bps)

(***************************************************************************)
(* C2  Execution ordering: a transaction is submitted only after the       *)
(* simulation of the built transaction succeeded; a failed simulation is   *)
(* counted in simulation_failures and is followed by neither a submission  *)
(* nor a confirmation for that opportunity.                                *)
(***************************************************************************)
C2_ExecutionOrdering ==
    /\ \A i \in DOMAIN execs :
          /\ execs[i].sim # "none" => execs[i].built # <<>> /\ ~execs[i].built[1].raised
          /\ execs[i].sent # "none" => execs[i].sim = "ok"
          /\ execs[i].confirm # "none" => execs[i].sent # "none"
          /\ execs[i].sim = "fail" =>
                execs[i].sent = "none" /\ execs[i].confirm = "none" /\ execs[i].pc = "end"
    /\ metrics.simulation_failures = Cardinality({i \in DOMAIN execs : execs[i].sim = "fail"})

\* the reactive worker's simulation failed and a scan-loop execution was
\* simulated, sent and confirmed
C2_Witness ==
    /\ \E i \in DOMAIN execs : execs[i].task = "ws" /\ execs[i].sim = "fail"
    /\ \E i \in DOMAIN execs :
          execs[i].task = "scan" /\ execs[i].sim = "ok" /\ execs[i].confirm = "true"
    /\ metrics.simulation_failures = 1 /\ metrics.successful_arbs = 1

(***************************************************************************)
(* C4  Dry-run safety: with dry_run enabled no path (scan-loop             *)
(* cross-venue, scan-loop aggregator, triangular, reactive) calls          *)
(* rpc.send_transaction or the MEV endpoint.                               *)
(***************************************************************************)
C4_DryRunSafety ==
    config.dry_run => \A i \in DOMAIN execs : execs[i].sent = "none"

\* a dry run in which the aggregator scan found an opportunity and the
\* reactive worker validated one
C4_Witness ==
    /\ config.dry_run /\ metrics.opportunities_found > 0
    /\ metrics.cross_dex_opps > 0 /\ recent_executions # {}

(***************************************************************************)
(* C5  Transaction-size guard: no build returns a transaction serialized   *)
(* to more than 1232 bytes; the oversize build raises, and its caller      *)
(* neither simulates nor sends.                                            *)
(***************************************************************************)
C5_TransactionSizeGuard ==
    \A i \in DOMAIN execs :
        execs[i].built # <<>> =>
            IF execs[i].built[1].raised
            THEN execs[i].sim = "none" /\ execs[i].sent = "none" /\ execs[i].pc = "end"
            ELSE execs[i].built[1].tx.tx_bytes <= MAX_TX_BYTES

\* a build raised on an oversize transaction and the caller counted the failure
C5_Witness ==
    \E i \in DOMAIN execs :
        /\ execs[i].built # <<>> /\ execs[i].built[1].raised
        /\ execs[i].built[1].why = "too_large"
        /\ metrics.execution_failures > 0

\* the number of cycles at the end of the log that ended with an exception
RECURSIVE TrailingFailures(_)
TrailingFailures(log) ==
    IF log = <<>> \/ log[Len(log)] # "exc" THEN 0
    ELSE 1 + TrailingFailures(SubSeq(log, 1, Len(log) - 1))

(***************************************************************************)
(* C6  Kill switch: the scan loop is force-stopped exactly when the        *)
(* number of consecutive cycles that ended with an exception reaches       *)
(* max_consecutive_failures; a cycle without exception resets              *)
(* consecutive_failures to 0, so fewer failures than the threshold         *)
(* followed by a success never stop the engine.                            *)
(***************************************************************************)
C6_KillSwitch ==
    /\ consecutive_failures = TrailingFailures(cycle_log)
    /\ kill_switch <=> TrailingFailures(cycle_log) >= config.max_consecutive_failures
    /\ kill_switch => ~running /\ scan_pc = "done"

\* the third cycle raised on the malformed pair, after two clean cycles, and
\* the threshold of 1 stopped the loop
C6_Witness ==
    /\ kill_switch /\ cycle_log = <<"ok", "ok", "exc">>
    /\ config.max_consecutive_failures = 1 /\ ~running /\ scan_pc = "done"

MaxBurst == 103

BurstUpdate ==
    /\ metrics.ws_updates < MaxBurst
    /\ \E state \in WsUpdates : PoolUpdate(state)

InitWsBurst ==
    /\ \E e \in {c \in EngineConfigs : c.cfg.ws_url} : EngStart(e)
    /\ RegInit /\ BldIdle /\ AuxIdle

NextWsBurst == BurstUpdate \/ SignalStop

SpecWsBurst == InitWsBurst /\ [][NextWsBurst]_vars

\* C21: a call of the streamer callback returns in its own step without
\* touching the tasks or the running flag; the reactive queue never holds
\* more than 100 entries, and an update that arrives when it holds 100 leaves
\* it as it is (the update is dropped, the price is still recorded).
C21_BackPressure ==
    [][metrics'.ws_updates = metrics.ws_updates + 1 =>
          /\ Len(ws_arb_queue') <= WS_QUEUE_MAXSIZE
          /\ Len(ws_arb_queue) = WS_QUEUE_MAXSIZE => ws_arb_queue' = ws_arb_queue
          /\ Len(ws_arb_queue) < WS_QUEUE_MAXSIZE =>
                \/ ws_arb_queue' = ws_arb_queue
                \/ /\ Len(ws_arb_queue') = Len(ws_arb_queue) + 1
                   /\ SubSeq(ws_arb_queue', 1, Len(ws_arb_queue)) = ws_arb_queue
          /\ UNCHANGED <<scan_pc, ws_pc, running, kill_switch, consecutive_failures, execs>>]_vars

\* the queue holds 100 updates and the pool's price is no longer the one of
\* the last update queued: a later update that moved the price was dropped
C21_Witness ==
    /\ Len(ws_arb_queue) = WS_QUEUE_MAXSIZE
    /\ metrics.ws_updates > WS_QUEUE_MAXSIZE + 1
    /\ DictGet(pool_prices, "x1", 0) # normalize_ws_price(ws_arb_queue[WS_QUEUE_MAXSIZE][2])

\* what the callback does with an update according to the trigger rule: the
\* counter, the cache, and the queue (when_room: only below 100 entries)
TriggerEffect(state, when_room) ==
    LET price   == normalize_ws_price(state)
        old     == DictGet(pool_prices, state.pool_address, 0)
        diff    == IF price >= old THEN price - old ELSE old - price
        trigger == /\ price > 0 /\ old > 0 /\ diff * 2000 >= old
                   /\ when_room => Len(ws_arb_queue) < WS_QUEUE_MAXSIZE
    IN  /\ metrics'.ws_updates = metrics.ws_updates + 1
        /\ pool_prices' = (IF price > 0 THEN DictSet(pool_prices, state.pool_address, price)
                           ELSE pool_prices)
        /\ ws_arb_queue' =
               (IF trigger
                THEN Append(ws_arb_queue,
                            <<PoolInfo(state.pool_address, state.dex, state.token_mint_a,
                                       state.token_mint_b), state>>)
                ELSE ws_arb_queue)

\* a step of the callback: it counts an update, records a price or queues
CallbackStep ==
    \/ metrics'.ws_updates # metrics.ws_updates
    \/ pool_prices' # pool_prices
    \/ Len(ws_arb_queue') > Len(ws_arb_queue)

\* C35 as stated: _on_pool_update queues a reactive check if and only if the
\* update has a positive normalized price, a positive price was cached for
\* the pool and the new price differs from it by >= 5 bps; it overwrites the
\* cache on every positive-price update and counts every callback.
C35_ReactiveTrigger ==
    [][CallbackStep => \E state \in WsUpdates : TriggerEffect(state, FALSE)]_vars

\* C35 amended: the same, and the queue holds fewer than 100 entries; an
\* update that meets the three conditions while the queue holds 100 is
\* counted and cached but not queued.
C35_ReactiveTriggerWhenRoom ==
    [][CallbackStep => \E state \in WsUpdates : TriggerEffect(state, TRUE)]_vars

\* five callbacks: the first price of x1 was cached without a check, two
\* moves of 10 bps were queued, and a repeated price and an update without
\* a price were not
C35_Witness ==
    /\ metrics.ws_updates = 5
    /\ Len(ws_arb_queue) = 2
    /\ ws_arb_queue[1][2].price = 100100000 /\ ws_arb_queue[2][2].price = 100000000
    /\ DictGet(pool_prices, "x1", 0) = normalize_ws_price(ws_arb_queue[2][2])
    /\ "x6" \notin DOMAIN pool_prices


\* the scan loop alone over MaxScheduleCycles cycles, in dry run without the
\* streamer: one configured pair, or a pair without "/" before it
MaxScheduleCycles == 110

ScheduleConfigs ==
    {[cfg |-> BotConfig(<<<<"SOL", "USDC">>>>, TRUE, FALSE, 2, FALSE), fee_bps |-> 9],
     [cfg |-> BotConfig(<<<<"SOLUSDC">>, <<"SOL", "USDC">>>>, TRUE, FALSE, 2, FALSE), fee_bps |-> 9]}

ScheduleCycleStart == cycle_count < MaxScheduleCycles /\ CycleStart

InitSchedule ==
    /\ \E e \in ScheduleConfigs : EngStart(e)
    /\ RegInit /\ BldIdle /\ AuxIdle

NextSchedule ==
    \/ ScheduleCycleStart \/ ScanLoopExit \/ ScanBreak \/ ScanPairRaises \/ ScanPairCrossDex
    \/ ScanAggregator \/ ScanTriangular \/ ScanTriangleNext \/ ScanCycleOk
    \/ SignalStop

SpecSchedule == InitSchedule /\ [][NextSchedule]_vars

\* C22: scan_cycles counts the cycles one by one; cycle n sweeps all
\* configured pairs when n is a multiple of 3 and the priority pairs among
\* them otherwise; the triangular scan has run in exactly the cycles that are
\* multiples of 5, so after cycle n it has run n \div 5 times.
C22_ScanSchedule ==
    /\ metrics.scan_cycles = cycle_count
    /\ cycle_count > 0 =>
          pairs_to_scan = (IF cycle_count % 3 = 0 THEN config.pairs
                           ELSE SelectSeq(config.pairs, IsPriority))
    /\ scan_pc \in {"loop", "done"} => tri_batch_idx = cycle_count \div 5

\* cycle 15 has ended, the engine still runs, and the triangular scan ran in
\* cycles 5 and 10 only: the sweep of cycle 15 raised before Mode 3
C22_Witness ==
    /\ cycle_count = 15 /\ metrics.scan_cycles = 15 /\ scan_pc = "loop" /\ running
    /\ pairs_to_scan = config.pairs
    /\ tri_batch_idx = 2
    /\ cycle_log[Len(cycle_log)] = "exc"

\* C23: an exception while one pair is processed is taken at that pair's
\* iteration: a cycle that ends with the engine still running has gone
\* through all the pairs of its sweep, and the exception is not counted
\* against the cycle.
C23_PerPairIsolation ==
    (scan_pc = "loop" /\ cycle_count > 0 /\ running) =>
        /\ scan_i > Len(pairs_to_scan)
        /\ cycle_log[Len(cycle_log)] = "ok"

\* the first pair of a full sweep raised in the cross-venue scanner, the
\* cycle is over and SOL/USDC, the second pair, was not scanned in it
C23_Witness ==
    /\ scan_pc = "loop" /\ running /\ cycle_count = 3
    /\ xdex_raised /\ xdex_call[1].pair = <<"SOLUSDC">>
    /\ pairs_to_scan = <<<<"SOLUSDC">>, <<"SOL", "USDC">>>> /\ scan_i = 1
    /\ consecutive_failures = 1

\* C29: every triangular scan of the engine is focused on a batch of exactly
\* TRI_BATCH mints of the graph token list, the quote anchor not among them.
C29_FocusBatchSize ==
    tri_batch_idx > 0 => Cardinality(tri_focus) = TRI_BATCH /\ USDC \notin tri_focus

\* the third triangular scan (batch index 2) ran on a focus batch of 2 mints
C29_Witness ==
    /\ tri_batch_idx = 3 /\ cycle_count = 15
    /\ Cardinality(tri_focus) = 2
    /\ tri_focus = batch_mints(2)

\* the starts (10 * k) % 22 repeat after 11 batches
RotationWindow == Len(GRAPH_MINTS) \div 2

\* C32: the focus batch of a triangular scan is never empty, the rotation
\* index advances by one per triangular scan, and every graph token other
\* than the quote anchor is in the batch of one of any RotationWindow
\* consecutive triangular scans.
C32_FocusRotation ==
    /\ [](tri_batch_idx > 0 => tri_focus # {} /\ tri_focus = batch_mints(tri_batch_idx - 1))
    /\ [][tri_batch_idx' # tri_batch_idx => tri_batch_idx' = tri_batch_idx + 1]_vars
    /\ [](tri_batch_idx >= RotationWindow =>
             \A m \in Range(GRAPH_MINTS) :
                \E k \in (tri_batch_idx - RotationWindow)..(tri_batch_idx - 1) :
                   m \in batch_mints(k))

\* the scan of cycle 110 ran on the batch of index 21, the last ten mints of
\* the list, and SOL was last scanned with index 11, eleven scans ago
C32_Witness ==
    /\ tri_batch_idx = 22 /\ cycle_count = 110
    /\ tri_focus = {GRAPH_MINTS[i] : i \in 13..22}
    /\ GRAPH_MINTS[1] \in batch_mints(11)
    /\ \A k \in 12..21 : GRAPH_MINTS[1] \notin batch_mints(k)

\* an ended execution that failed: a build error or stale-quote abort, a
\* failed or raising simulation, a raising submission, or a confirmation
\* that did not confirm
ExecFailed(e) ==
    /\ e.pc = "end"
    /\ \/ e.built # <<>> /\ e.built[1].raised
       \/ e.sim \in {"fail", "raise"}
       \/ e.sent # "none" /\ e.confirm # "true"

\* C26: a confirmation that ends because the block height passed the
\* transaction's last valid block height is an expiration, not a failure:
\* execution_failures counts the executions that failed other than by a
\* failed simulation or an expiration.
C26_ExpirationAccounting ==
    metrics.execution_failures =
        Cardinality({i \in DOMAIN execs :
                        ExecFailed(execs[i]) /\ execs[i].sim # "fail" /\ execs[i].confirm # "expired"})

\* the only execution so far was sent and its blockhash expired before
\* confirmation, and execution_failures is 1
C26_Witness ==
    /\ Len(execs) = 1 /\ execs[1].pc = "end"
    /\ execs[1].sent # "none" /\ execs[1].confirm = "expired"
    /\ metrics.execution_failures = 1

\* C27: an execution that ends in a failure leaves consecutive_failures, the
\* running flag and the kill switch as they were, and its caller goes on: the
\* scan loop with the next step of the cycle, the reactive worker with its
\* next queue wait.
C27_ExecutionFailureNoKillSwitch ==
    [][\A t \in {"scan", "ws"} :
          (exec_of[t] # 0 /\ exec_of'[t] = 0 /\ ExecFailed(execs'[exec_of[t]])) =>
             /\ consecutive_failures' = consecutive_failures
             /\ running' = running /\ kill_switch' = kill_switch
             /\ cycle_log' = cycle_log
             /\ t = "scan" => scan_pc' = execs[exec_of[t]].ret
             /\ t = "ws" => ws_pc' = (IF running THEN "get" ELSE "done")]_vars

\* the scan loop's execution failed at its build, one of the reactive worker
\* at its confirmation, and the engine runs with no failure counted
C27_Witness ==
    /\ \E i \in DOMAIN execs :
          execs[i].task = "scan" /\ ExecFailed(execs[i]) /\ execs[i].built[1].raised
    /\ \E i \in DOMAIN execs :
          execs[i].task = "ws" /\ ExecFailed(execs[i]) /\ execs[i].confirm \in {"err", "timeout"}
    /\ running /\ ~kill_switch /\ consecutive_failures = 0
    /\ scan_pc \in {"agg", "pair", "tri", "tri_loop"}

\* C30: once the running flag is cleared the scan task starts no
\* aggregator scan (scan_i moves on), no triangular scan (tri_batch_idx
\* moves on) and no task starts an execution.
C30_GracefulStop ==
    [][~running =>
          /\ Len(execs') = Len(execs)
          /\ scan_i' = scan_i
          /\ tri_batch_idx' = tri_batch_idx]_vars

\* stop() came, not the kill switch; the pair loop was left by its break
\* with pairs still to scan, and the triangular scan of that cycle ran
C30_Witness ==
    /\ ~running /\ ~kill_switch
    /\ scan_pc = "tri_loop" /\ tri_batch_idx = 1
    /\ pairs_to_scan # <<>> /\ scan_i <= Len(pairs_to_scan)

\* the calls of _execute, _execute_cross_dex and _execute_triangular that
\* have returned
EndedExecs(es) == {i \in DOMAIN es : es[i].pc = "end"}

\* successful_arbs + simulation_failures + execution_failures
OutcomeCount(m) == m.successful_arbs + m.simulation_failures + m.execution_failures

\* C38: a step in which a call of _execute* returns increments exactly one
\* of successful_arbs, simulation_failures, execution_failures by one and
\* leaves the other two; total_profit changes only in a step that increments
\* successful_arbs; no other step touches the three counters; and the number
\* of returned calls always equals their sum.
C38_MetricsAccounting ==
    /\ [](Cardinality(EndedExecs(execs)) = OutcomeCount(metrics))
    /\ [][/\ Cardinality(EndedExecs(execs')) = Cardinality(EndedExecs(execs)) + 1
             => /\ OutcomeCount(metrics') = OutcomeCount(metrics) + 1
                /\ \A c \in {"successful_arbs", "simulation_failures", "execution_failures"} :
                      metrics'[c] \in {metrics[c], metrics[c] + 1}
          /\ EndedExecs(execs') = EndedExecs(execs)
             => \A c \in {"successful_arbs", "simulation_failures", "execution_failures"} :
                   metrics'[c] = metrics[c]
          /\ metrics'.total_profit # metrics.total_profit
             => /\ metrics'.successful_arbs = metrics.successful_arbs + 1
                /\ EndedExecs(execs') # EndedExecs(execs)]_vars

\* two calls have returned, a confirmed one of the reactive worker and one
\* of the scan task whose build raised, each counted once
C38_Witness ==
    /\ Cardinality(EndedExecs(execs)) = 2
    /\ metrics.successful_arbs = 1 /\ metrics.simulation_failures = 0
    /\ metrics.execution_failures = 1
    /\ metrics.total_profit > 0
    /\ \E i \in EndedExecs(execs) : execs[i].task = "scan" /\ execs[i].built[1].raised
    /\ \E i \in EndedExecs(execs) : execs[i].task = "ws" /\ execs[i].confirm = "true"

\* the execution task t is in (build, simulate, submit or confirm), if any
InProgress(t) == IF exec_of[t] # 0 /\ TaskAlive(t) THEN <<execs[exec_of[t]]>> ELSE <<>>

\* C39: across the scan task and the reactive worker, two executions for
\* the same pair are never in progress at the same time (the scan task
\* honouring the reactive worker's per-pair cooldown would see to that).
C39_NoOverlappingExecutions ==
    (InProgress("scan") # <<>> /\ InProgress("ws") # <<>>)
    => InProgress("scan")[1].pair # InProgress("ws")[1].pair

\* the reactive worker's execution for SOL/USDC waits for its confirmation
\* while the scan task's cross-venue execution for SOL/USDC is being built
C39_Witness ==
    /\ InProgress("scan") # <<>> /\ InProgress("ws") # <<>>
    /\ InProgress("ws")[1].pair = <<"SOL", "USDC">> /\ InProgress("ws")[1].pc = "confirm"
    /\ InProgress("scan")[1].pair = <<"SOL", "USDC">> /\ InProgress("scan")[1].pc = "build"
    /\ InProgress("scan")[1].kind = "cross_dex"
    /\ <<"SOL", "USDC">> \in recent_executions

=============================================================================
